---- MODULE Spec2Model ----
(***************************************************************************)
(* Model of the extraction-and-classification pipeline of the NGA forum    *)
(* classifier: ollama_client.py (classification engine) and                *)
(* nga_classifier.py (listing parser, paging loop).                        *)
(*                                                                         *)
(* Text is a sequence of characters, each character a string.  TLA+        *)
(* strings are ASCII, so a CJK character is written in pinyin:             *)
(*   dong hua = 动画   fan ju = 番剧    you xi = 游戏    shou you = 手游      *)
(*   man hua = 漫画    qing xiao shuo = 轻小说            xiao shuo = 小说    *)
(*   xu ni zhu bo = 虚拟主播             zhu bo = 主播    shou ban = 手办     *)
(*   zhou bian = 周边  yin yue = 音乐   ge qu = 歌曲     qi ta = 其他        *)
(*   ke huan = 科幻 (a category outside the taxonomy)                       *)
(* A Latin letter is the one-letter string.  Confidences are in hundredths *)
(* (0.3 is 30).                                                            *)
(***************************************************************************)
EXTENDS Integers, Sequences, FiniteSets, TLC

VARIABLES
  pc,        \* position of the operation under way
  response,  \* the text handed to _fallback_parse
  outcome,   \* what the prompt build and the service call did
  result,    \* what classify_content / _fallback_parse returned
  posts,     \* batch_classify: the input list
  idx,       \* batch_classify: the number of posts the loop has taken
  returned,  \* batch_classify: what classify_content returned, per post
  results,   \* batch_classify: the output list
  html,        \* _parse_forum_page: the rows of the listing page
  page_posts,  \* _parse_forum_page: the stubs it returned
  pages_arg,   \* fetch_forum_posts: the page count it is called with
  max_pages,   \* fetch_forum_posts: `max_pages` after the cap
  page,        \* fetch_forum_posts: the loop variable
  forum_posts, \* fetch_forum_posts: the list `posts` it builds
  requested,   \* fetch_forum_posts: the page numbers requested, in order
  last_kind,   \* fetch_forum_posts: how the latest page operation ended
  last_net,    \* the latest network event of the run: a request or a sleep
  fetched,           \* classify_posts: the thread URLs requested, in order
  content_outcomes,  \* classify_posts: what each thread request did
  classified,        \* classify_posts: the list it returned
  health,            \* _check_service: what the startup check met
  ollama_client,     \* NGAClassifier.ollama_client
  interrupted_at,    \* where a KeyboardInterrupt hit the run
  content_text, \* fetch_post_content: the text _parse_post_content returned
  truncated,   \* fetch_post_content: the texts it returned, call after call
  stats,       \* generate_statistics: what it returned
  url_arg,     \* _extract_topic_id: its argument
  extracted_id \* _extract_topic_id: what it returned

vars ==
  <<pc, response, outcome, result, posts, idx, returned, results,
    html, page_posts, pages_arg, max_pages, page, forum_posts,
    requested, last_kind, last_net, fetched, content_outcomes, classified,
    health, ollama_client, interrupted_at, content_text, truncated, stats,
    url_arg, extracted_id>>

\* ------------------------------------------------------------------ bounds
MaxTextLen == 4
MaxRespLen == 4
MaxBatchRespLen == 3
MaxPosts == 2
MaxRows == 3
MaxFetchRows == 2
MaxPagesArg == 3
MaxRuns == 3
MaxUrlLen == 6
MaxScenarioRespLen == 3
MaxDivs == 2

\* --------------------------------------------------------------- taxonomy
CAT_ANIME == "donghua/fanju"
CAT_GAME == "youxi"
CAT_MANGA == "manhua"
CAT_NOVEL == "qingxiaoshuo"
CAT_VTUBER == "xunizhubo/VTuber"
CAT_FIGURE == "shouban/zhoubian"
CAT_MUSIC == "yinyue/gequ"
CAT_OTHER == "qita"

CLASSIFICATION_CATEGORIES ==
  <<CAT_ANIME, CAT_GAME, CAT_MANGA, CAT_NOVEL, CAT_VTUBER, CAT_FIGURE,
    CAT_MUSIC, CAT_OTHER>>

Range(s) == {s[i] : i \in 1..Len(s)}

\* ------------------------------------------------------------ JSON values
\* A JSON value as Python holds it: a list of strings, a string, a number
\* (in hundredths) or null.  One record shape for all, so values compare.
JList(items) == [t |-> "list", items |-> items, s |-> "", n |-> 0]
JStr(s) == [t |-> "str", items |-> <<>>, s |-> s, n |-> 0]
JNum(n) == [t |-> "num", items |-> <<>>, s |-> "", n |-> n]
JNull == [t |-> "null", items |-> <<>>, s |-> "", n |-> 0]

\* ------------------------------------------------------------------- text
UpperLetters ==
  <<"A", "B", "C", "D", "E", "F", "G", "H", "I", "J", "K", "L", "M",
    "N", "O", "P", "Q", "R", "S", "T", "U", "V", "W", "X", "Y", "Z">>
LowerLetters ==
  <<"a", "b", "c", "d", "e", "f", "g", "h", "i", "j", "k", "l", "m",
    "n", "o", "p", "q", "r", "s", "t", "u", "v", "w", "x", "y", "z">>

\* str.lower() on one character: a capital Latin letter maps to its small
\* letter, every other character is unchanged.
LowerChar(c) ==
  IF \E i \in 1..26 : UpperLetters[i] = c
  THEN LowerLetters[CHOOSE i \in 1..26 : UpperLetters[i] = c]
  ELSE c

Lower(text) == [i \in 1..Len(text) |-> LowerChar(text[i])]

\* `word in text` for Python strings: word is a contiguous run of text.
Contains(text, word) ==
  \E i \in 1..(Len(text) - Len(word) + 1) :
    SubSeq(text, i, i + Len(word) - 1) = word

\* any(word in text for word in words)
AnyIn(text, words) == \E k \in 1..Len(words) : Contains(text, words[k])

\* The keyword groups of _fallback_parse, in the order of its if/elif chain.
FallbackGroups ==
  << [words |-> << <<"dong", "hua">>, <<"fan", "ju">>,
                   <<"a", "n", "i", "m", "e">> >>,
      category |-> CAT_ANIME],
     [words |-> << <<"you", "xi">>, <<"g", "a", "m", "e">>,
                   <<"shou", "you">> >>,
      category |-> CAT_GAME],
     [words |-> << <<"man", "hua">>, <<"m", "a", "n", "g", "a">> >>,
      category |-> CAT_MANGA],
     [words |-> << <<"qing", "xiao", "shuo">>, <<"xiao", "shuo">>,
                   <<"n", "o", "v", "e", "l">> >>,
      category |-> CAT_NOVEL],
     [words |-> << <<"v", "t", "u", "b", "e", "r">>,
                   <<"xu", "ni", "zhu", "bo">>, <<"zhu", "bo">> >>,
      category |-> CAT_VTUBER],
     [words |-> << <<"shou", "ban">>, <<"zhou", "bian">>,
                   <<"f", "i", "g", "u", "r", "e">> >>,
      category |-> CAT_FIGURE],
     [words |-> << <<"yin", "yue">>, <<"ge", "qu">>,
                   <<"m", "u", "s", "i", "c">> >>,
      category |-> CAT_MUSIC] >>

FALLBACK_CONFIDENCE == 30

\* A classification result dict: the three fields the code reads and writes.
ResultDict(categories, keywords, confidence) ==
  [categories |-> categories, keywords |-> keywords, confidence |-> confidence]

\* The index of the first group, in chain order, with a word in the text;
\* 0 when no group has one.
FirstMatchingGroup(text) ==
  IF \E g \in 1..Len(FallbackGroups) : AnyIn(text, FallbackGroups[g].words)
  THEN CHOOSE g \in 1..Len(FallbackGroups) :
         /\ AnyIn(text, FallbackGroups[g].words)
         /\ \A h \in 1..(g - 1) : ~AnyIn(text, FallbackGroups[h].words)
  ELSE 0

\* Mutants of _fallback_parse.
fallback_parse_no_default(response_text) ==
  LET g == FirstMatchingGroup(Lower(response_text))
  IN ResultDict(JList(IF g = 0 THEN <<>> ELSE <<FallbackGroups[g].category>>),
                JList(<<>>), JNum(FALLBACK_CONFIDENCE))

fallback_parse_last_match(response_text) ==
  LET lowered == Lower(response_text)
      hits == {g \in 1..Len(FallbackGroups) : AnyIn(lowered, FallbackGroups[g].words)}
  IN ResultDict(JList(IF hits = {} THEN <<CAT_OTHER>>
                      ELSE <<FallbackGroups[CHOOSE g \in hits : \A h \in hits : h <= g].category>>),
                JList(<<>>), JNum(FALLBACK_CONFIDENCE))

\* OllamaClient._fallback_parse
fallback_parse(response_text) ==
  LET response_lower == Lower(response_text)
      g == FirstMatchingGroup(response_lower)
  IN ResultDict(JList(IF g = 0 THEN <<CAT_OTHER>> ELSE <<FallbackGroups[g].category>>),
                JList(<<>>), JNum(FALLBACK_CONFIDENCE))

\* ----------------------------------------------------- texts of bounded length
SeqsUpTo(S, n) == UNION {[1..k -> S] : k \in 0..n}

\* -------------------------------------------------- values a call returns
NoResult == ResultDict(JNull, JNull, JNull)
RNone == [kind |-> "none", d |-> NoResult]
RDict(d) == [kind |-> "dict", d |-> d]
RRaise == [kind |-> "raise", d |-> NoResult]

\* ------------------------------------------------------- response lexemes
\* A response text of the service is a sequence of lexemes: a character
\* ("a"), a brace, a blank ("sp"), or one member  "key": value  of a JSON
\* object (the commas between members are not modelled).
MemberTable ==
  ("cat=[]" :> [key |-> "categories", val |-> JList(<<>>)])
  @@ ("cat=[youxi]" :> [key |-> "categories", val |-> JList(<<CAT_GAME>>)])
  @@ ("cat=[manhua,youxi]" :>
        [key |-> "categories", val |-> JList(<<CAT_MANGA, CAT_GAME>>)])
  @@ ("cat=[kehuan]" :> [key |-> "categories", val |-> JList(<<"kehuan">>)])
  @@ ("cat='youxi'" :> [key |-> "categories", val |-> JStr(CAT_GAME)])
  @@ ("kw=[k]" :> [key |-> "keywords", val |-> JList(<<"k">>)])
  @@ ("conf=0.9" :> [key |-> "confidence", val |-> JNum(90)])
  @@ ("conf=1.5" :> [key |-> "confidence", val |-> JNum(150)])

Members == DOMAIN MemberTable

\* A member whose value is nested deeper than the interpreter's recursion
\* limit (`"keywords": [[[[...`): json.loads raises RecursionError on it.
DeepMember == "kw=[[[..."

Lexemes == {"{", "}", "sp", "a", DeepMember} \cup Members

\* The characters of a string value.
CharsOf(s) ==
  CASE s = CAT_GAME -> <<"you", "xi">>
    [] s = CAT_MANGA -> <<"man", "hua">>
    [] s = CAT_ANIME -> <<"dong", "hua", "/", "fan", "ju">>
    [] s = CAT_OTHER -> <<"qi", "ta">>
    [] s = "kehuan" -> <<"ke", "huan">>
    [] OTHER -> <<s>>

RECURSIVE ItemsChars(_)
ItemsChars(items) ==
  IF items = <<>> THEN <<>>
  ELSE <<"q">> \o CharsOf(Head(items)) \o <<"q">> \o ItemsChars(Tail(items))

\* The characters a lexeme stands for, as far as `word in text` can tell:
\* "q" is the punctuation and key text of a member, which holds no keyword.
LexChars(l) ==
  IF l \in Members
  THEN LET v == MemberTable[l].val
       IN <<"q">> \o (CASE v.t = "list" -> ItemsChars(v.items)
                        [] v.t = "str" -> ItemsChars(<<v.s>>)
                        [] OTHER -> <<"q">>)
  ELSE <<l>>

RECURSIVE TextChars(_)
TextChars(text) ==
  IF text = <<>> THEN <<>> ELSE LexChars(Head(text)) \o TextChars(Tail(text))

\* str.strip(): blanks removed at both ends.
RECURSIVE LStrip(_)
LStrip(text) ==
  IF text # <<>> /\ Head(text) = "sp" THEN LStrip(Tail(text)) ELSE text

RECURSIVE RStrip(_)
RStrip(text) ==
  IF text # <<>> /\ text[Len(text)] = "sp"
  THEN RStrip(SubSeq(text, 1, Len(text) - 1)) ELSE text

Strip(text) == RStrip(LStrip(text))

\* str.find / str.rfind, with Python's 0-based index and -1 for absent.
Find(text, c) ==
  IF \E i \in 1..Len(text) : text[i] = c
  THEN (CHOOSE i \in 1..Len(text) :
          text[i] = c /\ \A j \in 1..(i - 1) : text[j] # c) - 1
  ELSE -1

RFind(text, c) ==
  IF \E i \in 1..Len(text) : text[i] = c
  THEN (CHOOSE i \in 1..Len(text) :
          text[i] = c /\ \A j \in (i + 1)..Len(text) : text[j] # c) - 1
  ELSE -1

\* text[a:b] of Python (0-based, end exclusive).
Slice(text, a, b) == SubSeq(text, a + 1, b)

\* The dict json.loads builds from the members between the braces: a later
\* member with the same key replaces an earlier one.
EmptyObj == [has |-> {}, d |-> NoResult]

RECURSIVE BuildObj(_, _)
BuildObj(inner, obj) ==
  IF inner = <<>> THEN obj
  ELSE LET l == Head(inner)
       IN IF l = "sp" THEN BuildObj(Tail(inner), obj)
          ELSE LET m == MemberTable[l]
               IN BuildObj(Tail(inner),
                    [has |-> obj.has \cup {m.key},
                     d |-> [obj.d EXCEPT ![m.key] = m.val]])

\* json.loads on a span that starts with "{" and ends with "}".  It reads
\* the span from the left: it parses ("ok") when only members and blanks
\* stand between the two braces; the first other lexeme decides the
\* exception: RecursionError ("error") at a too deeply nested value,
\* JSONDecodeError ("decode_error") at text or another brace.
json_loads(json_str) ==
  LET inner == SubSeq(json_str, 2, Len(json_str) - 1)
      bad == {i \in 1..Len(inner) : inner[i] \notin Members \cup {"sp"}}
  IN IF bad = {}
     THEN [status |-> "ok", obj |-> BuildObj(inner, EmptyObj)]
     ELSE LET first == CHOOSE i \in bad : \A j \in bad : i <= j
          IN [status |-> IF inner[first] = DeepMember THEN "error"
                         ELSE "decode_error",
              obj |-> EmptyObj]

DEFAULT_CONFIDENCE == 50
ERROR_CONFIDENCE == 0

\* Mutant of the backfill: a missing confidence becomes 0.0.
Backfill_zero_confidence(obj) ==
  ResultDict(
    IF "categories" \in obj.has THEN obj.d.categories ELSE JList(<<>>),
    IF "keywords" \in obj.has THEN obj.d.keywords ELSE JList(<<>>),
    IF "confidence" \in obj.has THEN obj.d.confidence ELSE JNum(ERROR_CONFIDENCE))

\* Lines 119-124: the fields a parsed object lacks are filled in.
Backfill(obj) ==
  ResultDict(
    IF "categories" \in obj.has THEN obj.d.categories ELSE JList(<<>>),
    IF "keywords" \in obj.has THEN obj.d.keywords ELSE JList(<<>>),
    IF "confidence" \in obj.has THEN obj.d.confidence ELSE JNum(DEFAULT_CONFIDENCE))

\* Mutant of the exclusivity step: the last category is kept.
Exclusive_keep_last(d) ==
  IF d.categories.t = "list" /\ Len(d.categories.items) > 1
  THEN [d EXCEPT !.categories =
          JList(<<d.categories.items[Len(d.categories.items)]>>)]
  ELSE d

\* Lines 127-129: of a list of several categories only the first is kept.
Exclusive(d) ==
  IF d.categories.t = "list" /\ Len(d.categories.items) > 1
  THEN [d EXCEPT !.categories = JList(<<d.categories.items[1]>>)]
  ELSE d

\* What the service call hands back as the `response` field: a text, a
\* value that is no string, or nothing.
PyStr(text) == [t |-> "str", text |-> text]
PyOther == [t |-> "other", text |-> <<>>]
PyNone == [t |-> "none", text |-> <<>>]

\* Mutant: a JSONDecodeError is answered with the error default instead of
\* the fallback parser.
parse_classification_result_no_fallback(resp) ==
  IF resp.t # "str"
  THEN ResultDict(JList(<<>>), JList(<<>>), JNum(ERROR_CONFIDENCE))
  ELSE LET stripped == Strip(resp.text)
           json_start == Find(stripped, "{")
           json_end == RFind(stripped, "}") + 1
       IN IF json_start # -1 /\ json_end > json_start
          THEN LET parsed == json_loads(Slice(stripped, json_start, json_end))
               IN IF parsed.status = "ok" THEN Exclusive(Backfill(parsed.obj))
                  ELSE ResultDict(JList(<<>>), JList(<<>>), JNum(ERROR_CONFIDENCE))
          ELSE fallback_parse(TextChars(stripped))

\* OllamaClient._parse_classification_result.  A value that is no string has
\* no strip(): the AttributeError is caught by `except Exception` (line 139),
\* and so is an exception of json.loads that is no JSONDecodeError.
parse_classification_result(resp) ==
  IF resp.t # "str"
  THEN ResultDict(JList(<<>>), JList(<<>>), JNum(ERROR_CONFIDENCE))
  ELSE LET stripped == Strip(resp.text)
           json_start == Find(stripped, "{")
           json_end == RFind(stripped, "}") + 1
       IN IF json_start # -1 /\ json_end > json_start
          THEN LET parsed == json_loads(Slice(stripped, json_start, json_end))
               IN CASE parsed.status = "ok" -> Exclusive(Backfill(parsed.obj))
                    [] parsed.status = "decode_error"
                         -> fallback_parse(TextChars(stripped))
                    [] OTHER
                         -> ResultDict(JList(<<>>), JList(<<>>),
                                       JNum(ERROR_CONFIDENCE))
          ELSE fallback_parse(TextChars(stripped))

\* ------------------------------------------------------ the service call
\* What the prompt build and the HTTP call to the service can do.
\*   prompt_error  CLASSIFICATION_PROMPT.format raises
\*   conn_error    requests.post raises (connection refused, reset)
\*   timeout       requests.post raises Timeout after OLLAMA_TIMEOUT
\*   http_error    raise_for_status raises on a non-2xx status
\*   bad_body      response.json() raises: the body is no JSON
\*   not_object    the body is JSON but no object: result.get raises
\*   no_field      the body is an object without `response`: get gives ''
\*   null_field    `response` is null (or another falsy value: 0, [], {})
\*   nontext       `response` is a non-empty value that is no string
\*   text          `response` is the text in field `text`
FailureKinds ==
  {"prompt_error", "conn_error", "timeout", "http_error", "bad_body",
   "not_object"}

Outcome(kind, text) == [kind |-> kind, text |-> text]

OutcomesUpTo(n) ==
  {Outcome(k, <<>>) : k \in FailureKinds \cup {"no_field", "null_field", "nontext"}}
    \cup {Outcome("text", t) : t \in SeqsUpTo(Lexemes, n)}

ServiceOutcomes == OutcomesUpTo(MaxRespLen)

\* A step that either raises or yields a value.
Raised == [exc |-> TRUE, val |-> PyNone]
Value(v) == [exc |-> FALSE, val |-> v]

\* Lines 79-98: the body of _call_ollama's try block.
call_ollama_try(o) ==
  CASE o.kind \in {"conn_error", "timeout", "http_error", "bad_body", "not_object"}
         -> Raised
    [] o.kind = "no_field" -> Value(PyStr(<<>>))
    [] o.kind = "null_field" -> Value(PyNone)
    [] o.kind = "nontext" -> Value(PyOther)
    [] OTHER -> Value(PyStr(o.text))

\* OllamaClient._call_ollama: `except Exception` turns a raise into None.
call_ollama(o) ==
  LET r == call_ollama_try(o) IN IF r.exc THEN Value(PyNone) ELSE r

\* `not response` of Python: None and the empty string are falsy.
Falsy(v) == v.t = "none" \/ (v.t = "str" /\ v.text = <<>>)

\* Lines 59-70: the body of classify_content's try block.  It raises when the
\* prompt build raises or when a callee lets an exception out.
classify_content_try(o) ==
  IF o.kind = "prompt_error" THEN [exc |-> TRUE, ret |-> RNone]
  ELSE LET r == call_ollama(o)
       IN IF r.exc THEN [exc |-> TRUE, ret |-> RNone]
          ELSE IF Falsy(r.val) THEN [exc |-> FALSE, ret |-> RNone]
          ELSE [exc |-> FALSE, ret |-> RDict(parse_classification_result(r.val))]

\* Mutant: classify_content without its except clause.
classify_content_no_except(o) ==
  LET r == classify_content_try(o) IN IF r.exc THEN RRaise ELSE r.ret

\* OllamaClient.classify_content(title, content), for the outcome o of its
\* prompt build and service call: `except Exception` returns None.
classify_content(o) ==
  LET r == classify_content_try(o) IN IF r.exc THEN RNone ELSE r.ret

\* ----------------------------------------------------- the listing page
\* A URL is a sequence of tokens: path and query words, and digits.
NGA_BASE_URL == "https://ngabbs.com"

Digits == {"0", "1", "2", "3", "4", "5", "6", "7", "8", "9"}

IsDigitAt(url, i) == i >= 1 /\ i <= Len(url) /\ url[i] \in Digits

\* (\d+) from position i on: the longest run of digits.
RECURSIVE DigitRun(_, _)
DigitRun(url, i) ==
  IF IsDigitAt(url, i) THEN <<url[i]>> \o DigitRun(url, i + 1) ELSE <<>>

Least(S) == CHOOSE i \in S : \A j \in S : i <= j

\* For each pattern of _extract_topic_id, the positions where the group
\* (\d+) of a match starts; re.search takes the leftmost match.
\*   tid=(\d+)
\* The text tid= ends the parameter names tid= and ptid= alike.
EndsWithTid == {"tid=", "ptid="}

GroupsTid(url) ==
  {i + 1 : i \in {i \in 1..Len(url) :
                    url[i] \in EndsWithTid /\ IsDigitAt(url, i + 1)}}

\*   read\.php\?tid=(\d+)
GroupsReadTid(url) ==
  {i + 3 : i \in {i \in 1..Len(url) :
                    /\ url[i] = "read.php"
                    /\ i + 2 <= Len(url)
                    /\ url[i + 1] = "?"
                    /\ url[i + 2] = "tid="
                    /\ IsDigitAt(url, i + 3)}}

\*   /thread/(\d+)
GroupsThread(url) ==
  {i + 1 : i \in {i \in 1..Len(url) : url[i] = "/thread/" /\ IsDigitAt(url, i + 1)}}

\*   /read/(\d+)
GroupsRead(url) ==
  {i + 1 : i \in {i \in 1..Len(url) : url[i] = "/read/" /\ IsDigitAt(url, i + 1)}}

\*   read\.php.*?tid=(\d+): from the leftmost read.php that has one after
\*   it, the nearest tid= followed by a digit.
GroupsReadAnyTid(url) ==
  LET starts == {i \in 1..Len(url) :
                   /\ url[i] = "read.php"
                   /\ \E j \in GroupsTid(url) : j - 1 > i}
  IN IF starts = {} THEN {}
     ELSE {Least({j \in GroupsTid(url) : j - 1 > Least(starts)})}

\* NGAClassifier._extract_topic_id: the patterns in list order, the first
\* that matches decides; the empty string when none matches.
extract_topic_id(url) ==
  LET patterns == <<GroupsTid(url), GroupsReadTid(url), GroupsThread(url),
                    GroupsRead(url), GroupsReadAnyTid(url)>>
      hits == {k \in 1..Len(patterns) : patterns[k] # {}}
  IN IF hits = {} THEN <<>>
     ELSE DigitRun(url, Least(patterns[Least(hits)]))

\* A row of the listing table, as far as _parse_forum_page reads it:
\*   cells      the number of <td> cells
\*   link       whether the second cell holds an <a href=...>
\*   href       that link's href
\*   title      that link's text
\*   user_link  the text of the third cell's uid= link ("" when it has none)
\*   cell_text  the text of the third cell
\*   throws     whether reading the row raises
Row(cells, link, href, title, user_link, cell_text, throws) ==
  [cells |-> cells, link |-> link, href |-> href, title |-> title,
   user_link |-> user_link, cell_text |-> cell_text, throws |-> throws]

TitleA == <<"t", "A", "1">>
TitleB == <<"t", "B", "2">>

ReadHref(tid) == <<"/", "read.php", "?", "tid=", tid>>

ValidRow(tid, title) == Row(3, TRUE, ReadHref(tid), title, "alice", <<>>, FALSE)

Rows ==
  { ValidRow("1", TitleA), ValidRow("1", TitleB), ValidRow("2", TitleA),
    \* fewer than 3 cells
    Row(2, TRUE, ReadHref("3"), TitleA, "", <<>>, FALSE),
    \* no link in the title cell
    Row(3, FALSE, <<>>, <<>>, "alice", <<>>, FALSE),
    \* a link that references no thread-read endpoint
    Row(3, TRUE, <<"/", "thread.php", "?", "fid=", "7">>, TitleA, "alice", <<>>, FALSE),
    \* a title shorter than 3 characters, between blanks
    Row(3, TRUE, ReadHref("4"), <<"sp", "A", "B", "sp">>, "alice", <<>>, FALSE),
    \* a link to a listing whose parameter name ends in tid=
    Row(3, TRUE, <<"/", "thread.php", "?", "ptid=", "8">>, TitleA, "alice", <<>>, FALSE),
    \* a thread-read link without an identifier, the author as cell text
    Row(3, TRUE, <<"read.php", "?", "pid=", "5">>, TitleB, "", <<"7", "b", "o", "b">>, FALSE),
    \* a row whose parsing raises
    Row(3, TRUE, ReadHref("6"), TitleA, "alice", <<>>, TRUE) }

UNKNOWN_USER == "weizhi yonghu"

StartsWithSlash(href) ==
  href # <<>> /\ Head(href) \in {"/", "/thread/", "/read/"}

\* re.sub(r'\d+', '', text)
RemoveDigits(text) == SelectSeq(text, LAMBDA c : c \notin Digits)

\* Lines 254-268: the author of a row, "" when none is found.
RowAuthor(row) ==
  IF row.user_link # "" THEN row.user_link
  ELSE LET clean_text == Strip(RemoveDigits(Strip(row.cell_text)))
       IN IF Len(clean_text) > 1 THEN "cell-text" ELSE ""

\* Lines 219-281: what one row adds to `posts`: a one-element list with its
\* stub, or nothing when the row is skipped or raises.
RowPosts(row) ==
  IF row.throws THEN <<>>
  ELSE IF row.cells < 3 THEN <<>>
  ELSE IF ~row.link THEN <<>>
  ELSE IF row.href = <<>>
          \/ ~(\/ Contains(row.href, <<"read.php">>)
               \/ \E i \in 1..Len(row.href) : row.href[i] \in EndsWithTid)
       THEN <<>>
  ELSE IF Len(Strip(row.title)) < 3 THEN <<>>
  ELSE << [title |-> Strip(row.title),
           url |-> IF StartsWithSlash(row.href)
                   THEN <<NGA_BASE_URL>> \o row.href ELSE row.href,
           topic_id |-> extract_topic_id(row.href),
           author |-> IF RowAuthor(row) # "" THEN RowAuthor(row)
                      ELSE UNKNOWN_USER] >>

RECURSIVE AllRowPosts(_)
AllRowPosts(rows) ==
  IF rows = <<>> THEN <<>>
  ELSE RowPosts(Head(rows)) \o AllRowPosts(Tail(rows))

\* Mutant of the deduplication: the last stub of a topic_id is kept.
RECURSIVE Deduplicate_keep_last(_, _)
Deduplicate_keep_last(stubs, seen_ids) ==
  IF stubs = <<>> THEN <<>>
  ELSE LET post == Head(stubs)
       IN IF post.topic_id # <<>>
             /\ \A k \in 1..Len(Tail(stubs)) : Tail(stubs)[k].topic_id # post.topic_id
          THEN <<post>> \o Deduplicate_keep_last(Tail(stubs), seen_ids)
          ELSE Deduplicate_keep_last(Tail(stubs), seen_ids)

\* Lines 284-289: a stub is kept when its topic_id is not empty and was not
\* seen before.
RECURSIVE Deduplicate(_, _)
Deduplicate(stubs, seen_ids) ==
  IF stubs = <<>> THEN <<>>
  ELSE LET post == Head(stubs)
       IN IF post.topic_id # <<>> /\ post.topic_id \notin seen_ids
          THEN <<post>> \o Deduplicate(Tail(stubs), seen_ids \cup {post.topic_id})
          ELSE Deduplicate(Tail(stubs), seen_ids)

\* NGAClassifier._parse_forum_page
parse_forum_page(rows) == Deduplicate(AllRowPosts(rows), {})

\* ------------------------------------------------------- fetch_post_content
MAX_CONTENT_LENGTH == 5000

\* A text of a thread page is kept as the sequence of its runs: Run(c, n) is
\* the character c repeated n times, n >= 1, and two runs in a row differ in
\* their character.  The empty text is <<>>.
Run(c, n) == [c |-> c, n |-> n]

\* len(text)
RECURSIVE TextLen(_)
TextLen(text) ==
  IF text = <<>> THEN 0 ELSE Head(text).n + TextLen(Tail(text))

\* text + other
Concat(text, other) ==
  IF text = <<>> THEN other
  ELSE IF other = <<>> THEN text
  ELSE IF text[Len(text)].c = other[1].c
  THEN SubSeq(text, 1, Len(text) - 1)
         \o <<Run(other[1].c, text[Len(text)].n + other[1].n)>>
         \o Tail(other)
  ELSE text \o other

\* text[:k]
RECURSIVE Take(_, _)
Take(text, k) ==
  IF k <= 0 \/ text = <<>> THEN <<>>
  ELSE IF Head(text).n <= k
  THEN <<Head(text)>> \o Take(Tail(text), k - Head(text).n)
  ELSE <<Run(Head(text).c, k)>>

\* text[k:]
RECURSIVE Drop(_, _)
Drop(text, k) ==
  IF text = <<>> THEN <<>>
  ELSE IF k <= 0 THEN text
  ELSE IF Head(text).n <= k THEN Drop(Tail(text), k - Head(text).n)
  ELSE <<Run(Head(text).c, Head(text).n - k)>> \o Tail(text)

ELLIPSIS == <<Run(".", 3)>>

\* Mutant: the cut keeps one character less.
truncate_content_short(parsed) ==
  IF ~Falsy(parsed) /\ TextLen(parsed.text) > MAX_CONTENT_LENGTH
  THEN PyStr(Concat(Take(parsed.text, MAX_CONTENT_LENGTH - 1), ELLIPSIS))
  ELSE parsed

\* Lines 331-332: `if content and len(content) > MAX_CONTENT_LENGTH`.
truncate_content(parsed) ==
  IF ~Falsy(parsed) /\ TextLen(parsed.text) > MAX_CONTENT_LENGTH
  THEN PyStr(Concat(Take(parsed.text, MAX_CONTENT_LENGTH), ELLIPSIS))
  ELSE parsed

\* What the request of a thread page does: session.get raises, or
\* raise_for_status raises on a non-2xx status, or the page is handed to
\* _parse_post_content, which returns a non-empty text or None.
ContentOutcome(kind, parsed) == [kind |-> kind, parsed |-> parsed]

\* NGAClassifier.fetch_post_content
fetch_post_content(o) ==
  IF o.kind \in {"conn_error", "http_error"}
  THEN PyNone
  ELSE truncate_content(o.parsed)

ShortText == <<Run("a", 4)>>

LongText == <<Run("a", MAX_CONTENT_LENGTH + 1)>>

ContentOutcomes ==
  { ContentOutcome("conn_error", PyNone), ContentOutcome("http_error", PyNone),
    ContentOutcome("page", PyNone), ContentOutcome("page", PyStr(ShortText)),
    ContentOutcome("page", PyStr(LongText)) }

\* ------------------------------------------------------- batch_classify
\* A post as classify_posts hands it over: the stub's fields and `content`,
\* a string.
Post(topic_id, content) ==
  [title |-> TitleA, url |-> <<NGA_BASE_URL>> \o ReadHref(topic_id),
   topic_id |-> <<topic_id>>, author |-> "alice", content |-> content]

BatchPosts == {Post("1", PyStr(ShortText)), Post("2", PyStr(<<>>))}

\* What classify_content can return to batch_classify.
ClassifyResults == {classify_content(o) : o \in OutcomesUpTo(MaxBatchRespLen)}

ERROR_MARKER == "fenlei shibai"
NoErrorKey == "<no error key>"
Timestamp == "%Y-%m-%d %H:%M:%S"

FAILED_CONFIDENCE == 0

\* post.copy() updated with the classification, the time and, on failure,
\* the error marker.
PostResult(post, classification, error) ==
  [post |-> post, classification |-> classification,
   processed_at |-> Timestamp, error |-> error]

\* `if classification:` of Python: None and the empty dict are falsy; a
\* result dict always holds its three keys.
Truthy(r) == r.kind = "dict"

\* Mutant: a post without result is left out of the output list.
batch_append_skip_failed(out, post, classification) ==
  IF Truthy(classification)
  THEN Append(out, PostResult(post, classification.d, NoErrorKey))
  ELSE out

\* Mutant: the default result of a failed post carries no error marker.
batch_append_no_marker(out, post, classification) ==
  IF Truthy(classification)
  THEN Append(out, PostResult(post, classification.d, NoErrorKey))
  ELSE Append(out,
         PostResult(post,
           ResultDict(JList(<<CAT_OTHER>>), JList(<<>>), JNum(FAILED_CONFIDENCE)),
           NoErrorKey))

\* Lines 196-216: one record is appended for the post, whatever
\* classify_content returned.
batch_append(out, post, classification) ==
  IF Truthy(classification)
  THEN Append(out, PostResult(post, classification.d, NoErrorKey))
  ELSE Append(out,
         PostResult(post,
           ResultDict(JList(<<CAT_OTHER>>), JList(<<>>), JNum(FAILED_CONFIDENCE)),
           ERROR_MARKER))

\* ------------------------------------------------------- generate_statistics
\* A counter dict of Python, in insertion order: a sequence of entries.
Entry(key, count) == [key |-> key, count |-> count]

\* stats[...][key] = stats[...].get(key, 0) + 1
Bump(counter, key) ==
  IF \E k \in 1..Len(counter) : counter[k].key = key
  THEN [k \in 1..Len(counter) |->
          IF counter[k].key = key
          THEN Entry(key, counter[k].count + 1) ELSE counter[k]]
  ELSE Append(counter, Entry(key, 1))

RECURSIVE BumpAll(_, _)
BumpAll(counter, keys) ==
  IF keys = <<>> THEN counter
  ELSE BumpAll(Bump(counter, Head(keys)), Tail(keys))

\* What `for x in value` goes through: the entries of a list, the characters
\* of a string.
Iterable(v) == v.t \in {"list", "str"}

IterItems(v) == IF v.t = "list" THEN v.items ELSE CharsOf(v.s)

\* post.get('classification', {}).get(field, default)
ClassificationField(record, field, default) ==
  IF "classification" \in DOMAIN record
  THEN record.classification[field] ELSE default

\* post.get('author', ...)
RecordAuthor(record) ==
  IF "post" \in DOMAIN record THEN record.post.author ELSE record.author

RECURSIVE CountAll(_, _)
CountAll(records, field) ==
  IF records = <<>> THEN <<>>
  ELSE BumpAll(CountAll(SubSeq(records, 1, Len(records) - 1), field),
               IterItems(ClassificationField(records[Len(records)], field,
                                             JList(<<>>))))

RECURSIVE CountAuthors(_)
CountAuthors(records) ==
  IF records = <<>> THEN <<>>
  ELSE Bump(CountAuthors(SubSeq(records, 1, Len(records) - 1)),
            RecordAuthor(records[Len(records)]))

NoEntry == [none |-> TRUE, key |-> "", count |-> 0]

\* max(counter.items(), key=lambda x: x[1]) if counter else None: the first
\* entry, in insertion order, with the greatest count.
MostCommon(counter) ==
  IF counter = <<>> THEN NoEntry
  ELSE LET k == Least({i \in 1..Len(counter) :
                         \A j \in 1..Len(counter) : counter[j].count <= counter[i].count})
       IN [none |-> FALSE, key |-> counter[k].key, count |-> counter[k].count]

\* A quotient; the int 0 of the empty list is 0 / 1.
Rate(num, den) == [num |-> num, den |-> den]

RATE_THRESHOLD == 50

\* The posts counted by classification_rate: confidence > 0.5.
Confident(records) ==
  {i \in 1..Len(records) :
     ClassificationField(records[i], "confidence", JNum(0)).n > RATE_THRESHOLD}

NoStats ==
  [kind |-> "none", total_posts |-> 0, categories |-> <<>>, keywords |-> <<>>,
   authors |-> <<>>, most_common_category |-> NoEntry,
   most_common_keyword |-> NoEntry, most_active_author |-> NoEntry,
   classification_rate |-> Rate(0, 1)]

\* A value that `for` cannot go through, or a confidence that `>` cannot
\* compare with 0.5, raises TypeError.
StatsRaises(records) ==
  \E i \in 1..Len(records) :
    \/ ~Iterable(ClassificationField(records[i], "categories", JList(<<>>)))
    \/ ~Iterable(ClassificationField(records[i], "keywords", JList(<<>>)))
    \/ ClassificationField(records[i], "confidence", JNum(0)).t # "num"

\* Mutant: a confidence of exactly 0.5 counts as classified.
generate_statistics_at_least(classified_posts) ==
  IF StatsRaises(classified_posts) THEN [NoStats EXCEPT !.kind = "raise"]
  ELSE LET categories == CountAll(classified_posts, "categories")
           keywords == CountAll(classified_posts, "keywords")
           authors == CountAuthors(classified_posts)
       IN [kind |-> "ok",
           total_posts |-> Len(classified_posts),
           categories |-> categories,
           keywords |-> keywords,
           authors |-> authors,
           most_common_category |-> MostCommon(categories),
           most_common_keyword |-> MostCommon(keywords),
           most_active_author |-> MostCommon(authors),
           classification_rate |->
             IF classified_posts # <<>>
             THEN Rate(Cardinality({i \in 1..Len(classified_posts) :
                         classified_posts[i].classification.confidence.n
                           >= RATE_THRESHOLD}),
                       Len(classified_posts))
             ELSE Rate(0, 1)]

\* NGAClassifier.generate_statistics
generate_statistics(classified_posts) ==
  IF StatsRaises(classified_posts) THEN [NoStats EXCEPT !.kind = "raise"]
  ELSE LET categories == CountAll(classified_posts, "categories")
           keywords == CountAll(classified_posts, "keywords")
           authors == CountAuthors(classified_posts)
       IN [kind |-> "ok",
           total_posts |-> Len(classified_posts),
           categories |-> categories,
           keywords |-> keywords,
           authors |-> authors,
           most_common_category |-> MostCommon(categories),
           most_common_keyword |-> MostCommon(keywords),
           most_active_author |-> MostCommon(authors),
           classification_rate |->
             IF classified_posts # <<>>
             THEN Rate(Cardinality(Confident(classified_posts)),
                       Len(classified_posts))
             ELSE Rate(0, 1)]

statsVars == <<stats>>

StatsIdle == stats = NoStats

extractVars == <<url_arg, extracted_id>>

ExtractIdle ==
  /\ url_arg = <<>>
  /\ extracted_id = <<>>

batchVars == <<posts, idx, returned, results>>

BatchIdle ==
  /\ posts = <<>>
  /\ idx = 0
  /\ returned = <<>>
  /\ results = <<>>

listingVars == <<html, page_posts>>

ListingIdle ==
  /\ html = <<>>
  /\ page_posts = <<>>

fetchVars == <<pages_arg, max_pages, page, forum_posts, requested, last_kind>>

FetchIdle ==
  /\ pages_arg = 0
  /\ max_pages = 0
  /\ page = 0
  /\ forum_posts = <<>>
  /\ requested = <<>>
  /\ last_kind = "none"

contentVars == <<fetched, content_outcomes, classified>>

ContentIdle ==
  /\ fetched = <<>>
  /\ content_outcomes = <<>>
  /\ classified = <<>>

runVars == <<health, ollama_client, interrupted_at>>

RunIdle ==
  /\ health = "none"
  /\ ollama_client = "client"
  /\ interrupted_at = "none"

truncVars == <<content_text, truncated>>

TruncIdle ==
  /\ content_text = <<>>
  /\ truncated = <<>>

\* What the operations of the classification client and of the page parser
\* leave alone.
restVars == <<last_net, contentVars, runVars, truncVars, statsVars, extractVars>>

RestIdle ==
  /\ last_net = "none"
  /\ ContentIdle
  /\ RunIdle
  /\ TruncIdle
  /\ StatsIdle
  /\ ExtractIdle

\* ------------------------------------------------------- startup
\* What GET /api/tags meets in _check_service: the service lists the model,
\* the service answers without the model, the request fails, the body is
\* not the expected JSON.
HealthOutcomes == {"ok", "model_missing", "unreachable", "bad_body"}

\* OllamaClient._check_service: True when the model is listed; False, after a
\* log line, in every other case.  It catches Exception itself.
check_service(h) == h = "ok"

\* OllamaClient.__init__ calls _check_service as a statement (line 22): the
\* answer is dropped and nothing is raised.
OllamaClient_raises(h) == FALSE

\* NGAClassifier._init_ollama: the client, or None when the constructor
\* raised.
init_ollama(h) == IF OllamaClient_raises(h) THEN "none" ELSE "client"

\* ------------------------------------------------------- classify_posts
\* Mutant: `content` is stored as fetch_post_content returned it.
with_content_as_returned(post, fetched_content) ==
  [title |-> post.title, url |-> post.url, topic_id |-> post.topic_id,
   author |-> post.author, content |-> fetched_content]

\* Lines 424-425: post.copy() with content = content or "".
with_content(post, fetched_content) ==
  [title |-> post.title, url |-> post.url, topic_id |-> post.topic_id,
   author |-> post.author,
   content |-> IF Falsy(fetched_content) THEN PyStr(<<>>) ELSE fetched_content]

\* A thread request that gave no content.
FailedContent(o) ==
  o.kind \in {"conn_error", "http_error"} \/ o.parsed = PyNone

\* Lines 412-416: without client the stubs are returned as they came.
ClassifyPostsBegin ==
  /\ pc = "classify"
  /\ IF ollama_client = "none"
     THEN classified' = forum_posts /\ pc' = "classified"
     ELSE classified' = classified /\ pc' = "contents"
  /\ UNCHANGED <<response, outcome, result, batchVars, listingVars, fetchVars,
                 last_net, fetched, content_outcomes, runVars, truncVars, statsVars, extractVars>>

\* Mutant: a post whose content could not be fetched is left out.
FetchPostContentFrom_skip_failed(outcomes) ==
  /\ pc = "contents"
  /\ Len(fetched) < Len(forum_posts)
  /\ \E o \in outcomes :
       LET post == forum_posts[Len(fetched) + 1]
       IN /\ fetched' = Append(fetched, post.url)
          /\ content_outcomes' = Append(content_outcomes, o)
          /\ posts' = IF FailedContent(o) THEN posts
                      ELSE Append(posts, with_content(post, fetch_post_content(o)))
  /\ last_net' = "sleep"
  /\ UNCHANGED <<pc, response, outcome, result, idx, returned, results,
                 listingVars, fetchVars, classified, runVars, truncVars, statsVars, extractVars>>

\* Lines 420-428: one iteration of the content loop: the thread page is
\* requested, the post is copied with its content, the loop sleeps.
FetchPostContentFrom(outcomes) ==
  /\ pc = "contents"
  /\ Len(fetched) < Len(forum_posts)
  /\ \E o \in outcomes :
       LET post == forum_posts[Len(fetched) + 1]
       IN /\ fetched' = Append(fetched, post.url)
          /\ content_outcomes' = Append(content_outcomes, o)
          /\ posts' = Append(posts, with_content(post, fetch_post_content(o)))
  /\ last_net' = "sleep"
  /\ UNCHANGED <<pc, response, outcome, result, idx, returned, results,
                 listingVars, fetchVars, classified, runVars, truncVars, statsVars, extractVars>>

\* Line 431: the copies go to batch_classify.
ContentsDone ==
  /\ pc = "contents"
  /\ Len(fetched) = Len(forum_posts)
  /\ pc' = "batch"
  /\ UNCHANGED <<response, outcome, result, batchVars, listingVars, fetchVars,
                 restVars>>

\* Lines 431-434: what batch_classify returned is returned.
ClassifyPostsReturn ==
  /\ pc = "done"
  /\ classified' = results
  /\ pc' = "classified"
  /\ UNCHANGED <<response, outcome, result, batchVars, listingVars, fetchVars,
                 last_net, fetched, content_outcomes, runVars, truncVars, statsVars, extractVars>>

\* ================================================= SpecFallback
\* _fallback_parse applied to every text over FallbackAlphabet.
FallbackAlphabet ==
  {"dong", "hua", "man", "you", "xi", "yin", "yue", "G", "a", "m", "e"}

IdleOutcome == [kind |-> "idle", text |-> <<>>]

InitFallback ==
  /\ pc = "start"
  /\ response \in SeqsUpTo(FallbackAlphabet, MaxTextLen)
  /\ outcome = IdleOutcome
  /\ result = RNone
  /\ BatchIdle
  /\ ListingIdle
  /\ FetchIdle
  /\ RestIdle

FallbackParse ==
  /\ pc = "start"
  /\ result' = RDict(fallback_parse(response))
  /\ pc' = "done"
  /\ UNCHANGED <<response, outcome, batchVars, listingVars, fetchVars, restVars>>

NextFallback == FallbackParse

SpecFallback == InitFallback /\ [][NextFallback]_vars

\* ================================================= SpecClassify
\* classify_content applied to every outcome of the service call.
InitClassify ==
  /\ pc = "start"
  /\ response = <<>>
  /\ outcome \in ServiceOutcomes
  /\ result = RNone
  /\ BatchIdle
  /\ ListingIdle
  /\ FetchIdle
  /\ RestIdle

ClassifyContent ==
  /\ pc = "start"
  /\ result' = classify_content(outcome)
  /\ pc' = "done"
  /\ UNCHANGED <<response, outcome, batchVars, listingVars, fetchVars, restVars>>

NextClassify == ClassifyContent

SpecClassify == InitClassify /\ [][NextClassify]_vars

\* ================================================= claims: classification
\* What a claim says of a response text, in the terms of the parser.
HasJsonSpan(text) ==
  LET stripped == Strip(text)
  IN Find(stripped, "{") # -1 /\ RFind(stripped, "}") + 1 > Find(stripped, "{")

JsonSpan(text) ==
  LET stripped == Strip(text)
  IN Slice(stripped, Find(stripped, "{"), RFind(stripped, "}") + 1)

StructParses(text) ==
  HasJsonSpan(text) /\ json_loads(JsonSpan(text)).status = "ok"

DecodeError(text) ==
  HasJsonSpan(text) /\ json_loads(JsonSpan(text)).status = "decode_error"

ParsedObj(text) == json_loads(JsonSpan(text)).obj

OneTaxonomyCategory(d) ==
  /\ d.categories.t = "list"
  /\ Len(d.categories.items) = 1
  /\ d.categories.items[1] \in Range(CLASSIFICATION_CATEGORIES)

\* C3: when the response parses as JSON with a `categories` list of two or
\* more entries, the result's categories is the one-element list of the
\* first entry, and keywords and confidence are as parsed.
C3_KeepsFirstCategory ==
  (/\ pc = "done"
   /\ outcome.kind = "text"
   /\ StructParses(outcome.text)
   /\ "categories" \in ParsedObj(outcome.text).has
   /\ ParsedObj(outcome.text).d.categories.t = "list"
   /\ Len(ParsedObj(outcome.text).d.categories.items) >= 2)
  => LET obj == ParsedObj(outcome.text)
     IN /\ result.kind = "dict"
        /\ result.d.categories = JList(<<obj.d.categories.items[1]>>)
        /\ "keywords" \in obj.has => result.d.keywords = obj.d.keywords
        /\ "confidence" \in obj.has => result.d.confidence = obj.d.confidence

C3_Witness ==
  /\ pc = "done"
  /\ outcome = Outcome("text", <<"{", "cat=[manhua,youxi]", "conf=0.9", "}">>)
  /\ result.d.categories = JList(<<CAT_MANGA>>)
  /\ result.d.confidence = JNum(90)

\* C4: for every input string _fallback_parse returns exactly one category,
\* a member of the 8-entry taxonomy, with empty keywords and confidence 0.3.
C4_FallbackShape ==
  pc = "done" =>
    /\ result.kind = "dict"
    /\ OneTaxonomyCategory(result.d)
    /\ Len(CLASSIFICATION_CATEGORIES) = 8
    /\ result.d.keywords = JList(<<>>)
    /\ result.d.confidence = JNum(30)

C4_Witness ==
  /\ pc = "done"
  /\ response = <<"a", "m", "e">>
  /\ result.d.categories = JList(<<CAT_OTHER>>)

\* The claim's order of the groups, by category.
ClaimedOrder ==
  <<CAT_ANIME, CAT_GAME, CAT_MANGA, CAT_NOVEL, CAT_VTUBER, CAT_FIGURE, CAT_MUSIC>>

GroupOf(category) ==
  FallbackGroups[CHOOSE g \in 1..Len(FallbackGroups) :
                   FallbackGroups[g].category = category]

HasTermOf(category, text) == AnyIn(Lower(text), GroupOf(category).words)

\* C5: the fallback classifier assigns the category of the first group, in
\* the order anime, game, manga, light novel, VTuber, figure, music, that has
\* a term in the lower-cased response, and '其他' when no group has one.
C5_FirstGroupWins ==
  pc = "done" =>
    /\ \A k \in 1..Len(ClaimedOrder) :
         (/\ HasTermOf(ClaimedOrder[k], response)
          /\ \A j \in 1..(k - 1) : ~HasTermOf(ClaimedOrder[j], response))
         => result.d.categories = JList(<<ClaimedOrder[k]>>)
    /\ (\A k \in 1..Len(ClaimedOrder) : ~HasTermOf(ClaimedOrder[k], response))
         => result.d.categories = JList(<<CAT_OTHER>>)

\* A response that names manga before anime: the anime group still wins.
C5_Witness ==
  /\ pc = "done"
  /\ response = <<"man", "hua", "dong", "hua">>
  /\ result.d.categories = JList(<<CAT_ANIME>>)

\* C6 as claimed: whenever the call completes and the response text (the
\* empty text included) has no JSON span or a span that does not parse,
\* classify_content returns the fallback result.
C6_FallbackForEveryText ==
  (/\ pc = "done"
   /\ outcome.kind \in {"text", "no_field"}
   /\ ~StructParses(outcome.text))
  => /\ result.kind = "dict"
     /\ OneTaxonomyCategory(result.d)
     /\ result.d.confidence = JNum(30)

\* C6 as amended: whenever the call completes and its response text has no
\* JSON span or a span on which json.loads raises JSONDecodeError,
\* classify_content returns the fallback result if the text is not empty,
\* and no result if it is empty.
C6_FallbackForNonEmptyText ==
  (/\ pc = "done"
   /\ outcome.kind \in {"text", "no_field"}
   /\ (~HasJsonSpan(outcome.text) \/ DecodeError(outcome.text)))
  => IF outcome.text = <<>>
     THEN result = RNone
     ELSE /\ result.kind = "dict"
          /\ OneTaxonomyCategory(result.d)
          /\ result.d.keywords = JList(<<>>)
          /\ result.d.confidence = JNum(30)

\* A span whose parsing throws: two objects with text between them.
C6_Witness ==
  /\ pc = "done"
  /\ outcome = Outcome("text", <<"{", "}", "a", "}">>)
  /\ result = RDict(ResultDict(JList(<<CAT_OTHER>>), JList(<<>>), JNum(30)))

\* C7: no exception escapes classify_content: every failure of the prompt
\* build, the service call or the parsing comes back as a value, absent or a
\* result dict.
C7_NoExceptionEscapes ==
  pc = "done" =>
    /\ result.kind \in {"none", "dict"}
    /\ outcome.kind \in FailureKinds => result = RNone
    /\ outcome.kind = "nontext" => result.kind = "dict"

C7_Witness ==
  /\ pc = "done"
  /\ outcome.kind = "timeout"
  /\ result = RNone

\* ================================================= SpecBatch
\* batch_classify on every list of up to MaxPosts posts; each iteration of
\* its loop calls classify_content, which returns any of ClassifyResults.
InitBatch ==
  /\ pc = "batch"
  /\ response = <<>>
  /\ outcome = IdleOutcome
  /\ result = RNone
  /\ posts \in SeqsUpTo(BatchPosts, MaxPosts)
  /\ idx = 0
  /\ returned = <<>>
  /\ results = <<>>
  /\ ListingIdle
  /\ FetchIdle
  /\ RestIdle

\* One iteration of the loop of line 188.  batch_classify has no try block:
\* an exception that left classify_content would leave batch_classify too.
BatchClassifyFrom(classifications) ==
  /\ pc = "batch"
  /\ idx < Len(posts)
  /\ \E classification \in classifications :
       /\ returned' = Append(returned, classification)
       /\ IF classification.kind = "raise"
          THEN pc' = "raised" /\ results' = results
          ELSE /\ pc' = pc
               /\ results' = batch_append(results, posts[idx + 1], classification)
  /\ idx' = idx + 1
  /\ UNCHANGED <<response, outcome, result, posts, listingVars, fetchVars, restVars>>

BatchClassifyStep == BatchClassifyFrom(ClassifyResults)

\* Line 218: the loop is over, the list is returned.
BatchReturn ==
  /\ pc = "batch"
  /\ idx = Len(posts)
  /\ pc' = "done"
  /\ UNCHANGED <<response, outcome, result, batchVars, listingVars, fetchVars, restVars>>

NextBatch == BatchClassifyStep \/ BatchReturn

SpecBatch == InitBatch /\ [][NextBatch]_vars

\* ================================================= claims: batch
\* C1: batch_classify returns one record per input post, in input order,
\* each carrying the fields of its post, whatever classify_content returned
\* for each post.
C1_OneRecordPerPost ==
  /\ pc # "raised"
  /\ Len(results) = idx
  /\ pc = "done" =>
       /\ Len(results) = Len(posts)
       /\ \A i \in 1..Len(posts) : results[i].post = posts[i]

\* Two posts, the first without result, the second with one.
C1_Witness ==
  /\ pc = "done"
  /\ posts = <<Post("2", PyStr(<<>>)), Post("1", PyStr(ShortText))>>
  /\ returned[1] = RNone
  /\ returned[2].kind = "dict"
  /\ results[2].post = Post("1", PyStr(ShortText))

\* The number of elements of a `categories` value: the entries of a list,
\* the characters of a string.
NumElements(v) ==
  CASE v.t = "list" -> Len(v.items)
    [] v.t = "str" -> Len(CharsOf(v.s))
    [] OTHER -> 0

\* C2 as claimed: every record batch_classify produces carries at most one
\* category, whatever the service answered.
C2_AtMostOneCategory ==
  \A i \in 1..Len(results) :
    NumElements(results[i].classification.categories) <= 1

\* C8: a post for which classify_content returns no result gets the
\* classification {categories: ['其他'], keywords: [], confidence: 0}, the
\* error marker and a processing time, and the posts after it are processed.
C8_FailedPostGetsDefault ==
  /\ \A i \in 1..Len(results) :
       returned[i] = RNone =>
         /\ results[i].classification =
              ResultDict(JList(<<CAT_OTHER>>), JList(<<>>), JNum(0))
         /\ results[i].error = ERROR_MARKER
         /\ results[i].processed_at = Timestamp
         /\ results[i].post = posts[i]
  /\ pc = "done" => Len(results) = Len(posts) /\ Len(returned) = Len(posts)

\* The first post fails, the second is still processed.
C8_Witness ==
  /\ pc = "done"
  /\ Len(posts) = 2
  /\ returned[1] = RNone
  /\ results[1].error = ERROR_MARKER
  /\ returned[2].kind = "dict"
  /\ results[2].error = NoErrorKey

\* ================================================= SpecStats
\* batch_classify as in SpecBatch, and generate_statistics on the list it
\* returned (main.py lines 69-72).
GenerateStatistics ==
  /\ pc = "done"
  /\ stats' = generate_statistics(results)
  /\ pc' = "aggregated"
  /\ UNCHANGED <<response, outcome, result, batchVars, listingVars, fetchVars,
                 last_net, contentVars, runVars, truncVars, extractVars>>

NextStats == BatchClassifyStep \/ BatchReturn \/ GenerateStatistics

SpecStats == InitBatch /\ [][NextStats]_vars

\* ================================================= claims: statistics
RECURSIVE SumCounts(_)
SumCounts(counter) ==
  IF counter = <<>> THEN 0 ELSE Head(counter).count + SumCounts(Tail(counter))

\* C21 as claimed: the category counters of the statistics sum to the number
\* of posts.
C21_CountersSumToN ==
  pc = "aggregated" => SumCounts(stats.categories) = Len(results)

\* C22: classification_rate is the number of posts with confidence above 0.5
\* over the number of posts, a value in [0,1]; for the empty list nothing is
\* divided, the rate is 0 and the three most-common fields are None.
C22_RateAndEmptySummary ==
  pc = "aggregated" =>
    /\ stats.kind = "ok"
    /\ stats.total_posts = Len(results)
    /\ IF results = <<>>
       THEN /\ stats.classification_rate = Rate(0, 1)
            /\ stats.most_common_category = NoEntry
            /\ stats.most_common_keyword = NoEntry
            /\ stats.most_active_author = NoEntry
       ELSE /\ stats.classification_rate.den = Len(results)
            /\ stats.classification_rate.num =
                 Cardinality({i \in 1..Len(results) :
                                results[i].classification.confidence.n > 50})
            /\ 0 <= stats.classification_rate.num
            /\ stats.classification_rate.num <= stats.classification_rate.den

\* Two posts, one with the backfilled confidence 0.5 and one with 0.9: the
\* rate is 1/2.
C22_Witness ==
  /\ pc = "aggregated"
  /\ Len(results) = 2
  /\ results[1].classification.confidence = JNum(DEFAULT_CONFIDENCE)
  /\ results[2].classification.confidence = JNum(90)
  /\ stats.classification_rate = Rate(1, 2)

\* C26 as claimed: every classification attached to a post has a confidence
\* between 0 and 1.
C26_ConfidenceInUnitInterval ==
  \A i \in 1..Len(results) :
    /\ results[i].classification.confidence.t = "num"
    /\ results[i].classification.confidence.n >= 0
    /\ results[i].classification.confidence.n <= 100

\* C30 as claimed: every category attached to a post, and every key of the
\* category counter, is an entry of CLASSIFICATION_CATEGORIES.
C30_CategoriesInTaxonomy ==
  /\ \A i \in 1..Len(results) :
       \A k \in 1..Len(IterItems(results[i].classification.categories)) :
         IterItems(results[i].classification.categories)[k]
           \in Range(CLASSIFICATION_CATEGORIES)
  /\ \A k \in 1..Len(stats.categories) :
       stats.categories[k].key \in Range(CLASSIFICATION_CATEGORIES)

\* ================================================= SpecListing
\* _parse_forum_page on every page of up to MaxRows rows.
InitListing ==
  /\ pc = "start"
  /\ response = <<>>
  /\ outcome = IdleOutcome
  /\ result = RNone
  /\ BatchIdle
  /\ html \in SeqsUpTo(Rows, MaxRows)
  /\ page_posts = <<>>
  /\ FetchIdle
  /\ RestIdle

ParseForumPage ==
  /\ pc = "start"
  /\ page_posts' = parse_forum_page(html)
  /\ pc' = "done"
  /\ UNCHANGED <<response, outcome, result, batchVars, html, fetchVars, restVars>>

NextListing == ParseForumPage

SpecListing == InitListing /\ [][NextListing]_vars

\* ================================================= SpecFetch
\* fetch_forum_posts: the paging loop.  Each request of a listing page either
\* raises, or answers with the login notice, or answers with a page of rows.
MAX_PAGES_LIMIT == 100

FetchRows ==
  { ValidRow("1", TitleA), ValidRow("2", TitleA), ValidRow("1", TitleB),
    Row(3, FALSE, <<>>, <<>>, "alice", <<>>, FALSE) }

FetchBodies == SeqsUpTo(FetchRows, MaxFetchRows)

\* Mutant: the page count is taken as given.
FetchStart_no_cap(arg) ==
  /\ pages_arg = arg
  /\ max_pages = arg
  /\ page = 1
  /\ forum_posts = <<>>
  /\ requested = <<>>
  /\ last_kind = "none"

\* Lines 166-170: the page count is capped, the list is empty, the loop is
\* about to take page 1.
FetchStart(arg) ==
  /\ pages_arg = arg
  /\ max_pages = IF arg > MAX_PAGES_LIMIT THEN MAX_PAGES_LIMIT ELSE arg
  /\ page = 1
  /\ forum_posts = <<>>
  /\ requested = <<>>
  /\ last_kind = "none"

InitFetch ==
  /\ pc = "paging"
  /\ response = <<>>
  /\ outcome = IdleOutcome
  /\ result = RNone
  /\ BatchIdle
  /\ ListingIdle
  /\ \E arg \in 0..MaxPagesArg : FetchStart(arg)
  /\ RestIdle

\* Mutant: an exception of a page ends the paging.
FetchPageRaises_aborts ==
  /\ pc = "paging"
  /\ page <= max_pages
  /\ requested' = Append(requested, page)
  /\ last_net' = "get"
  /\ last_kind' = "raise"
  /\ pc' = "fetched"
  /\ UNCHANGED <<response, outcome, result, batchVars, listingVars,
                 pages_arg, max_pages, page, forum_posts,
                 contentVars, runVars, truncVars, statsVars, extractVars>>

\* Lines 182-183 and 203-205: session.get or raise_for_status raised; the
\* handler logs and the loop goes on with the next page, line 201 is skipped.
FetchPageRaises ==
  /\ pc = "paging"
  /\ page <= max_pages
  /\ requested' = Append(requested, page)
  /\ last_net' = "get"
  /\ last_kind' = "raise"
  /\ page' = page + 1
  /\ UNCHANGED <<pc, response, outcome, result, batchVars, listingVars,
                 pages_arg, max_pages, forum_posts,
                 contentVars, runVars, truncVars, statsVars, extractVars>>

\* Mutant: the login notice is logged and the loop goes on.
FetchPageLoginNotice_continues ==
  /\ pc = "paging"
  /\ page <= max_pages
  /\ requested' = Append(requested, page)
  /\ last_net' = "get"
  /\ last_kind' = "login"
  /\ page' = page + 1
  /\ UNCHANGED <<pc, response, outcome, result, batchVars, listingVars,
                 pages_arg, max_pages, forum_posts,
                 contentVars, runVars, truncVars, statsVars, extractVars>>

\* Lines 182-188: the body holds the login notice; break.
FetchPageLoginNotice ==
  /\ pc = "paging"
  /\ page <= max_pages
  /\ requested' = Append(requested, page)
  /\ last_net' = "get"
  /\ last_kind' = "login"
  /\ pc' = "fetched"
  /\ UNCHANGED <<response, outcome, result, batchVars, listingVars,
                 pages_arg, max_pages, page, forum_posts,
                 contentVars, runVars, truncVars, statsVars, extractVars>>

\* Mutant: a page without stub is skipped and the loop goes on.
FetchPageParsedFrom_no_break(bodies) ==
  /\ pc = "paging"
  /\ page <= max_pages
  /\ requested' = Append(requested, page)
  /\ \E body \in bodies :
       LET stubs == parse_forum_page(body)
       IN IF stubs = <<>>
          THEN /\ last_kind' = "empty"
               /\ last_net' = "get"
               /\ page' = page + 1
               /\ UNCHANGED <<pc, forum_posts>>
          ELSE /\ forum_posts' = forum_posts \o stubs
               /\ last_kind' = "stubs"
               /\ last_net' = "sleep"
               /\ page' = page + 1
               /\ pc' = pc
  /\ UNCHANGED <<response, outcome, result, batchVars, listingVars,
                 pages_arg, max_pages, contentVars, runVars, truncVars, statsVars, extractVars>>

\* Lines 182-201: the page is parsed; no stub: break; else the stubs are
\* appended, the loop sleeps REQUEST_DELAY and goes on.
FetchPageParsedFrom(bodies) ==
  /\ pc = "paging"
  /\ page <= max_pages
  /\ requested' = Append(requested, page)
  /\ \E body \in bodies :
       LET stubs == parse_forum_page(body)
       IN IF stubs = <<>>
          THEN /\ last_kind' = "empty"
               /\ last_net' = "get"
               /\ pc' = "fetched"
               /\ UNCHANGED <<page, forum_posts>>
          ELSE /\ forum_posts' = forum_posts \o stubs
               /\ last_kind' = "stubs"
               /\ last_net' = "sleep"
               /\ page' = page + 1
               /\ pc' = pc
  /\ UNCHANGED <<response, outcome, result, batchVars, listingVars,
                 pages_arg, max_pages, contentVars, runVars, truncVars, statsVars, extractVars>>

FetchPageParsed == FetchPageParsedFrom(FetchBodies)

\* Lines 207-208: the loop is over; the list is returned.
FetchReturn ==
  /\ pc = "paging"
  /\ page > max_pages
  /\ pc' = "fetched"
  /\ UNCHANGED <<response, outcome, result, batchVars, listingVars, fetchVars,
                 restVars>>

NextFetch ==
  FetchPageRaises \/ FetchPageLoginNotice \/ FetchPageParsed \/ FetchReturn

SpecFetch == InitFetch /\ [][NextFetch]_vars

\* ================================================= SpecPaging
\* The paging loop up to the hard limit of pages: the page count asked for
\* may exceed MAX_PAGES_LIMIT, and a page holds at most one row.
PagingArgs == (0..MaxPagesArg) \cup {MAX_PAGES_LIMIT + 1}

PagingBodies == {<<>>, <<ValidRow("1", TitleA)>>}

InitPaging ==
  /\ pc = "paging"
  /\ response = <<>>
  /\ outcome = IdleOutcome
  /\ result = RNone
  /\ BatchIdle
  /\ ListingIdle
  /\ \E arg \in PagingArgs : FetchStart(arg)
  /\ RestIdle

PagingPageParsed == FetchPageParsedFrom(PagingBodies)

NextPaging ==
  FetchPageRaises \/ FetchPageLoginNotice \/ PagingPageParsed \/ FetchReturn

\* Every request carries timeout=TIMEOUT and the sleep is finite, so an
\* iteration that can run does run.
SpecPaging == InitPaging /\ [][NextPaging]_vars /\ WF_vars(NextPaging)

\* ================================================= claims: paging
Min(a, b) == IF a < b THEN a ELSE b

\* The requests made so far are those of pages 1, 2, ... in this order, and
\* their number is within the capped page count.
PagingInOrder ==
  /\ \A i \in 1..Len(requested) : requested[i] = i
  /\ Len(requested) <= Min(pages_arg, MAX_PAGES_LIMIT)

\* C11: fetch_forum_posts requests the listing pages in increasing order from
\* page 1, each at most once, at most min(max_pages, MAX_PAGES_LIMIT) of them,
\* and its loop ends whatever the pages answer.
C11_PagingBoundedAndTerminates ==
  []PagingInOrder /\ <>(pc = "fetched")

\* More pages asked for than the limit, and every page up to the limit is
\* requested.
C11_Witness ==
  /\ pc = "fetched"
  /\ pages_arg = MAX_PAGES_LIMIT + 1
  /\ Len(requested) = MAX_PAGES_LIMIT
  /\ requested[MAX_PAGES_LIMIT] = MAX_PAGES_LIMIT

\* Once fetch_forum_posts has returned, it requests no page and its list
\* stays as returned.
ReturnedIsFinal ==
  pc = "fetched" => requested' = requested /\ forum_posts' = forum_posts

\* C12: a listing page that parses to no stub ends the paging: the function
\* returns, without exception, the stubs of the pages before, and requests no
\* further page.
C12_EmptyPageStopsPaging ==
  [][ /\ (requested' # requested /\ last_kind' = "empty") =>
           /\ pc' = "fetched"
           /\ forum_posts' = forum_posts
      /\ ReturnedIsFinal ]_vars

\* A page with stubs, then a page without, below the page count.
C12_Witness ==
  /\ pc = "fetched"
  /\ last_kind = "empty"
  /\ forum_posts # <<>>
  /\ requested = <<1, 2>>
  /\ max_pages = 3

\* C13: a listing body with the login notice ends the paging: the function
\* returns, without exception, exactly the stubs of the pages before, adds
\* none of that page and requests no further page.
C13_LoginNoticeStopsPaging ==
  [][ /\ (requested' # requested /\ last_kind' = "login") =>
           /\ pc' = "fetched"
           /\ forum_posts' = forum_posts
      /\ ReturnedIsFinal ]_vars

\* A page with stubs, then the login notice, below the page count.
C13_Witness ==
  /\ pc = "fetched"
  /\ last_kind = "login"
  /\ forum_posts # <<>>
  /\ requested = <<1, 2>>
  /\ max_pages = 3

\* C14: when the request or the parse of page k raises, the loop goes on:
\* the list is as before, page k adds nothing, and the next request, if k is
\* below the page count, is that of page k + 1.
C14_PageErrorIsSkipped ==
  [][ /\ (requested' # requested /\ last_kind' = "raise") =>
           /\ pc' = "paging"
           /\ forum_posts' = forum_posts
           /\ page' = page + 1
      /\ (last_kind = "raise" /\ page <= max_pages) =>
           /\ pc = "paging"
           /\ requested' = Append(requested, page) ]_vars

\* Page 1 gave stubs, page 2 raised, page 3 is the next to be requested.
C14_Witness ==
  /\ pc = "paging"
  /\ requested = <<1, 2>>
  /\ last_kind = "raise"
  /\ forum_posts # <<>>
  /\ page = 3
  /\ max_pages = 3

\* C17 as claimed: a request to the forum that follows another one comes
\* after a sleep, also when the earlier request raised.
C17_SleepBetweenRequests ==
  [][ (requested' # requested \/ fetched' # fetched) => last_net # "get" ]_vars

\* ================================================= SpecTruncate
\* The truncation of fetch_post_content on the texts of up to MaxRuns runs
\* whose lengths lie around MAX_CONTENT_LENGTH, applied to a text and then
\* to its own result.
ContentChars == {"a", "."}

RunLengths ==
  {1, 2, 3} \cup ((MAX_CONTENT_LENGTH - 3)..(MAX_CONTENT_LENGTH + 1))

Runs == {Run(c, n) : c \in ContentChars, n \in RunLengths}

ContentTexts ==
  {t \in SeqsUpTo(Runs, MaxRuns) :
     t # <<>> /\ \A i \in 1..(Len(t) - 1) : t[i].c # t[i + 1].c}

\* _parse_post_content returns a non-empty text or None (line 375).
InitTruncate ==
  /\ pc = "start"
  /\ response = <<>>
  /\ outcome = IdleOutcome
  /\ result = RNone
  /\ BatchIdle
  /\ ListingIdle
  /\ FetchIdle
  /\ last_net = "none"
  /\ ContentIdle
  /\ RunIdle
  /\ content_text \in {PyNone} \cup {PyStr(t) : t \in ContentTexts}
  /\ truncated = <<>>
  /\ StatsIdle
  /\ ExtractIdle

TruncateContent ==
  /\ pc = "start"
  /\ truncated' =
       Append(truncated,
              truncate_content(IF truncated = <<>> THEN content_text
                               ELSE truncated[Len(truncated)]))
  /\ pc' = IF Len(truncated) = 1 THEN "done" ELSE pc
  /\ UNCHANGED <<response, outcome, result, batchVars, listingVars, fetchVars,
                 last_net, contentVars, runVars, content_text, statsVars, extractVars>>

NextTruncate == TruncateContent

SpecTruncate == InitTruncate /\ [][NextTruncate]_vars

\* ================================================= claims: truncation
\* C20: the truncation turns a text longer than MAX_CONTENT_LENGTH into its
\* first MAX_CONTENT_LENGTH characters followed by "...", leaves any other
\* text as it is, and applied to its own result changes nothing.
C20_TruncationExactAndIdempotent ==
  /\ Len(truncated) >= 1 =>
       IF content_text.t = "str" /\ TextLen(content_text.text) > MAX_CONTENT_LENGTH
       THEN /\ truncated[1].t = "str"
            /\ TextLen(truncated[1].text) = MAX_CONTENT_LENGTH + 3
            /\ Take(truncated[1].text, MAX_CONTENT_LENGTH)
                 = Take(content_text.text, MAX_CONTENT_LENGTH)
            /\ Drop(truncated[1].text, MAX_CONTENT_LENGTH) = ELLIPSIS
       ELSE truncated[1] = content_text
  /\ Len(truncated) = 2 => truncated[2] = truncated[1]

\* A text one character too long, cut and cut again.
C20_Witness ==
  /\ pc = "done"
  /\ content_text = PyStr(<<Run(".", 2), Run("a", MAX_CONTENT_LENGTH - 1)>>)
  /\ truncated[1] = PyStr(<<Run(".", 2), Run("a", MAX_CONTENT_LENGTH - 2), Run(".", 3)>>)
  /\ truncated[2] = truncated[1]

\* ================================================= SpecContent
\* classify_posts on every list of up to MaxPosts stubs, after a startup
\* check of any outcome; each thread request ends in any of ContentOutcomes,
\* each classification fails or gives a result of the service.
ContentStubs ==
  { parse_forum_page(<<ValidRow("1", TitleA)>>)[1],
    parse_forum_page(<<ValidRow("2", TitleB)>>)[1] }

ServiceResult == classify_content(Outcome("text", <<"{", "cat=[youxi]", "}">>))

NoServiceResult == classify_content(Outcome("conn_error", <<>>))

FewClassifyResults == {NoServiceResult, ServiceResult}

InitContent ==
  /\ pc = "classify"
  /\ response = <<>>
  /\ outcome = IdleOutcome
  /\ result = RNone
  /\ BatchIdle
  /\ ListingIdle
  /\ pages_arg = 0
  /\ max_pages = 0
  /\ page = 0
  /\ forum_posts \in SeqsUpTo(ContentStubs, MaxPosts)
  /\ requested = <<>>
  /\ last_kind = "none"
  /\ last_net = "none"
  /\ ContentIdle
  /\ health \in HealthOutcomes
  /\ ollama_client = init_ollama(health)
  /\ interrupted_at = "none"
  /\ TruncIdle
  /\ StatsIdle
  /\ ExtractIdle

FetchPostContent == FetchPostContentFrom(ContentOutcomes)

ContentBatchClassifyStep == BatchClassifyFrom(FewClassifyResults)

NextContent ==
  \/ ClassifyPostsBegin
  \/ FetchPostContent
  \/ ContentsDone
  \/ ContentBatchClassifyStep
  \/ BatchReturn
  \/ ClassifyPostsReturn

SpecContent == InitContent /\ [][NextContent]_vars

\* ================================================= claims: classify_posts
\* C15: in classify_posts a thread request that fails (transport error,
\* non-2xx status, no usable text) gives the post the content "", and the
\* loop goes on: every stub is requested once, in input order, and its copy
\* is handed to the classification.
C15_FailedContentIsEmpty ==
  /\ Len(fetched) <= Len(forum_posts)
  /\ Len(posts) = Len(fetched)
  /\ Len(content_outcomes) = Len(fetched)
  /\ \A i \in 1..Len(fetched) :
       /\ fetched[i] = forum_posts[i].url
       /\ posts[i].topic_id = forum_posts[i].topic_id
       /\ posts[i].title = forum_posts[i].title
       /\ FailedContent(content_outcomes[i]) => posts[i].content = PyStr(<<>>)
  /\ pc \in {"batch", "done", "classified"} => Len(posts) = Len(forum_posts)
  /\ pc \in {"done", "classified"} =>
       /\ Len(results) = Len(forum_posts)
       /\ \A i \in 1..Len(results) : results[i].post = posts[i]

\* The first thread request fails, the second gives a text; both posts are
\* classified.
C15_Witness ==
  /\ pc = "classified"
  /\ Len(forum_posts) = 2
  /\ content_outcomes[1].kind = "http_error"
  /\ content_outcomes[2] = ContentOutcome("page", PyStr(ShortText))
  /\ classified[1].post.content = PyStr(<<>>)
  /\ classified[2].post.content = PyStr(ShortText)

\* The record carries a field `content` that holds a string.
HasStringContent(record) ==
  /\ "post" \in DOMAIN record
  /\ "content" \in DOMAIN record.post
  /\ record.post.content.t = "str"

\* C16: every record classify_posts returns has a `content` that is a
\* string, "" when no content was fetched, whatever the startup check met.
C16_ContentIsAlwaysString ==
  pc = "classified" =>
    /\ Len(classified) = Len(forum_posts)
    /\ \A i \in 1..Len(classified) :
         /\ HasStringContent(classified[i])
         /\ FailedContent(content_outcomes[i]) =>
              classified[i].post.content = PyStr(<<>>)

\* The service was unreachable at startup and the thread page gave no text.
C16_Witness ==
  /\ pc = "classified"
  /\ health = "unreachable"
  /\ Len(classified) = 1
  /\ content_outcomes[1] = ContentOutcome("page", PyNone)
  /\ classified[1].post.content = PyStr(<<>>)

\* ================================================= SpecRun
\* main: the classifier is built, the listing pages are fetched, the posts
\* are given their content and classified, the results are saved.  A
\* KeyboardInterrupt may arrive at any moment.
RunContentOutcomes ==
  { ContentOutcome("conn_error", PyNone), ContentOutcome("page", PyStr(ShortText)) }

InitRun ==
  /\ pc = "init"
  /\ response = <<>>
  /\ outcome = IdleOutcome
  /\ result = RNone
  /\ BatchIdle
  /\ ListingIdle
  /\ \E arg \in 0..MaxPagesArg : FetchStart(arg)
  /\ last_net = "none"
  /\ ContentIdle
  /\ health = "none"
  /\ ollama_client = "none"
  /\ interrupted_at = "none"
  /\ TruncIdle
  /\ StatsIdle
  /\ ExtractIdle

\* main.py line 48, NGAClassifier.__init__ lines 36-37: the client is built
\* and the service is checked.
InitOllama ==
  /\ pc = "init"
  /\ \E h \in HealthOutcomes :
       /\ health' = h
       /\ ollama_client' = init_ollama(h)
  /\ pc' = "paging"
  /\ UNCHANGED <<response, outcome, result, batchVars, listingVars, fetchVars,
                 last_net, contentVars, interrupted_at, truncVars, statsVars, extractVars>>

RunPageParsed == FetchPageParsedFrom(PagingBodies)

\* main.py lines 62-69: without stub the run exits with status 1, else the
\* stubs go to classify_posts.
MainAfterFetch ==
  /\ pc = "fetched"
  /\ pc' = IF forum_posts = <<>> THEN "exit" ELSE "classify"
  /\ UNCHANGED <<response, outcome, result, batchVars, listingVars, fetchVars,
                 restVars>>

RunFetchPostContent == FetchPostContentFrom(RunContentOutcomes)

RunBatchClassifyStep == BatchClassifyFrom(FewClassifyResults)

\* Mutant: after the statistics the run goes back to paging.
MainFinish_restarts ==
  /\ pc = "classified"
  /\ stats' = generate_statistics(classified)
  /\ pc' = "paging"
  /\ UNCHANGED <<response, outcome, result, batchVars, listingVars, fetchVars,
                 last_net, contentVars, runVars, truncVars, extractVars>>

\* main.py lines 72-91: statistics, save, summary.
MainFinish ==
  /\ pc = "classified"
  /\ stats' = generate_statistics(classified)
  /\ pc' = "saved"
  /\ UNCHANGED <<response, outcome, result, batchVars, listingVars, fetchVars,
                 last_net, contentVars, runVars, truncVars, extractVars>>

\* Where a KeyboardInterrupt can hit the run: inside the network request of
\* the operation that the loop is about to make, or between two operations.
InterruptPoints ==
  (IF pc = "init" THEN {"health_request"} ELSE {})
    \cup (IF pc = "paging" /\ page <= max_pages THEN {"listing_request"} ELSE {})
    \cup (IF pc = "contents" /\ Len(fetched) < Len(forum_posts)
          THEN {"thread_request"} ELSE {})
    \cup (IF pc = "batch" /\ idx < Len(posts) THEN {"classify_request"} ELSE {})
    \cup (IF pc \in {"paging", "fetched", "classify", "contents", "batch",
                     "done", "classified"}
          THEN {"between"} ELSE {})

\* KeyboardInterrupt is no Exception: none of the `except Exception` handlers
\* of the loops catches it, it unwinds to main.py lines 93-95, which exits
\* with status 1.  The request under way was sent; its answer is dropped.
Interrupt ==
  /\ \E at \in InterruptPoints :
       /\ interrupted_at' = at
       /\ requested' = IF at = "listing_request"
                       THEN Append(requested, page) ELSE requested
       /\ fetched' = IF at = "thread_request"
                     THEN Append(fetched, forum_posts[Len(fetched) + 1].url)
                     ELSE fetched
       /\ last_net' = IF at \in {"listing_request", "thread_request"}
                      THEN "get" ELSE last_net
  /\ pc' = "exit"
  /\ UNCHANGED <<response, outcome, result, batchVars, listingVars,
                 pages_arg, max_pages, page, forum_posts, last_kind,
                 content_outcomes, classified, health, ollama_client, truncVars, statsVars, extractVars>>

NextRun ==
  \/ InitOllama
  \/ FetchPageRaises
  \/ FetchPageLoginNotice
  \/ RunPageParsed
  \/ FetchReturn
  \/ MainAfterFetch
  \/ ClassifyPostsBegin
  \/ RunFetchPostContent
  \/ ContentsDone
  \/ RunBatchClassifyStep
  \/ BatchReturn
  \/ ClassifyPostsReturn
  \/ MainFinish
  \/ Interrupt

SpecRun == InitRun /\ [][NextRun]_vars

\* ================================================= claims: run
\* C18 as claimed: after a failed startup check of the service no post of
\* the run gets a classification that comes from the service.
C18_FailedCheckDisablesClassification ==
  health \in {"model_missing", "unreachable", "bad_body"} =>
    \A i \in 1..Len(returned) : returned[i] # ServiceResult

\* C19 as claimed: an interrupt takes effect between two page or post
\* operations, never inside one.
C19_InterruptAfterOperation ==
  interrupted_at \in {"none", "between"}

\* ================================================= claims: listing
\* C9 as claimed: in the list fetch_forum_posts returns, every stub has a
\* non-empty topic_id and no two stubs share a topic_id.
C9_UniqueTopicIds ==
  pc = "fetched" =>
    /\ \A i \in 1..Len(forum_posts) : forum_posts[i].topic_id # <<>>
    /\ \A i, j \in 1..Len(forum_posts) :
         i # j => forum_posts[i].topic_id # forum_posts[j].topic_id

\* The rows of the page that yield a stub with an identifier.
StubRows ==
  {r \in 1..Len(html) :
     RowPosts(html[r]) # <<>> /\ RowPosts(html[r])[1].topic_id # <<>>}

RowStub(r) == RowPosts(html[r])[1]

FirstRowOf(tid) == Least({r \in StubRows : RowStub(r).topic_id = tid})

\* C10: within one page, _parse_forum_page returns for each topic_id exactly
\* one stub, that of the first row with the topic_id, and the stubs are in
\* the order of first appearance.
C10_FirstStubPerTopic ==
  pc = "done" =>
    /\ \A r \in StubRows :
         Cardinality({k \in 1..Len(page_posts) :
                        page_posts[k].topic_id = RowStub(r).topic_id}) = 1
    /\ \A k \in 1..Len(page_posts) :
         /\ \E r \in StubRows : RowStub(r).topic_id = page_posts[k].topic_id
         /\ page_posts[k] = RowStub(FirstRowOf(page_posts[k].topic_id))
    /\ \A k, l \in 1..Len(page_posts) :
         k < l => FirstRowOf(page_posts[k].topic_id) < FirstRowOf(page_posts[l].topic_id)

\* Topic 1 under two titles around topic 2: the first title is kept.
C10_Witness ==
  /\ pc = "done"
  /\ html = <<ValidRow("1", TitleB), ValidRow("2", TitleA), ValidRow("1", TitleA)>>
  /\ Len(page_posts) = 2
  /\ page_posts[1].title = TitleB
  /\ page_posts[2].topic_id = <<"2">>

\* The rows the listing parser is to keep: at least 3 cells, a link in the
\* title cell that references the thread-read endpoint (read.php, or a
\* parameter tid), a title of at least 3 characters, an identifier.
ValidRows ==
  {r \in 1..Len(html) :
     /\ ~html[r].throws
     /\ html[r].cells >= 3
     /\ html[r].link
     /\ \/ Contains(html[r].href, <<"read.php">>)
        \/ Contains(html[r].href, <<"tid=">>)
     /\ Len(Strip(html[r].title)) >= 3
     /\ extract_topic_id(html[r].href) # <<>>}

\* C24 as claimed, read together with the deduplication by topic_id: every
\* valid row has exactly one stub with its identifier and every stub is the
\* stub of a valid row; a malformed row, a row linking no thread-read
\* endpoint among them, adds none.
C24_StubsOfValidRows ==
  pc = "done" =>
    /\ \A r \in ValidRows :
         Cardinality({k \in 1..Len(page_posts) :
                        page_posts[k].topic_id = RowStub(r).topic_id}) = 1
    /\ \A k \in 1..Len(page_posts) :
         \E r \in ValidRows : page_posts[k] = RowStub(r)

\* ================================================= SpecExtract
\* _extract_topic_id on every URL of up to MaxUrlLen tokens.
UrlTokens == {"read.php", "/thread/", "?", "&", "tid=", "ptid=", "1", "2"}

InitExtract ==
  /\ pc = "start"
  /\ response = <<>>
  /\ outcome = IdleOutcome
  /\ result = RNone
  /\ BatchIdle
  /\ ListingIdle
  /\ FetchIdle
  /\ last_net = "none"
  /\ ContentIdle
  /\ RunIdle
  /\ TruncIdle
  /\ StatsIdle
  /\ url_arg \in SeqsUpTo(UrlTokens, MaxUrlLen)
  /\ extracted_id = <<>>

ExtractTopicId ==
  /\ pc = "start"
  /\ extracted_id' = extract_topic_id(url_arg)
  /\ pc' = "done"
  /\ UNCHANGED <<response, outcome, result, batchVars, listingVars, fetchVars,
                 last_net, contentVars, runVars, truncVars, statsVars, url_arg>>

NextExtract == ExtractTopicId

SpecExtract == InitExtract /\ [][NextExtract]_vars

\* ================================================= claims: identifier
\* The digit runs of the URL's `tid` parameters.
ThreadParameters ==
  {DigitRun(url_arg, i + 1) : i \in {i \in 1..Len(url_arg) :
                                   url_arg[i] = "tid=" /\ IsDigitAt(url_arg, i + 1)}}

\* C23 as claimed: for a URL with a thread parameter tid=<digits>,
\* _extract_topic_id returns the digits of that parameter, not those of
\* another numeric parameter.
C23_ThreadParameterWins ==
  (pc = "done" /\ ThreadParameters # {}) => extracted_id \in ThreadParameters

\* ================================================= SpecScenario
\* classify_content on one fixed input, a recommendation thread for new
\* anime series, for every outcome of the service call: the response is the
\* service's to choose, whatever the prompt says.
ScenarioTitle == <<"[", "tao", "lun", "]", "xin", "fan", "tui", "jian">>

ScenarioContent == <<"gui", "mie", "zhi", "ren">>

ScenarioInput == [title |-> ScenarioTitle, content |-> ScenarioContent]

ScenarioLexemes == {"{", "}", "sp", "a", "fan", "ju", "you", "cat=[youxi]"}

ScenarioOutcomes ==
  {Outcome(k, <<>>) : k \in FailureKinds \cup {"no_field", "null_field", "nontext"}}
    \cup {Outcome("text", t) : t \in SeqsUpTo(ScenarioLexemes, MaxScenarioRespLen)}

InitScenario ==
  /\ pc = "start"
  /\ response = <<>>
  /\ outcome \in ScenarioOutcomes
  /\ result = RNone
  /\ posts = <<ScenarioInput>>
  /\ idx = 0
  /\ returned = <<>>
  /\ results = <<>>
  /\ ListingIdle
  /\ FetchIdle
  /\ RestIdle

ClassifyScenario ==
  /\ pc = "start"
  /\ posts = <<ScenarioInput>>
  /\ result' = classify_content(outcome)
  /\ pc' = "done"
  /\ UNCHANGED <<response, outcome, batchVars, listingVars, fetchVars, restVars>>

NextScenario == ClassifyScenario

SpecScenario == InitScenario /\ [][NextScenario]_vars

\* ================================================= claims: scenario
AnimeResult == RDict(ResultDict(JList(<<CAT_ANIME>>), JList(<<>>), JNum(30)))

\* The response text, as the fallback parser sees it, holds a term of the
\* anime group.
NamesAnime(text) ==
  AnyIn(Lower(TextChars(Strip(text))), FallbackGroups[1].words)

\* C25 as claimed: for the scenario input, whenever the service's response
\* holds no valid JSON, classify_content returns the category donghua/fanju
\* with confidence 0.3.
C25_ScenarioAlwaysAnime ==
  (/\ pc = "done"
   /\ posts = <<ScenarioInput>>
   /\ outcome.kind = "text"
   /\ ~StructParses(outcome.text))
  => result = AnimeResult

\* C25 as amended: for the scenario input, whenever the response text has no
\* JSON span or a span on which json.loads raises JSONDecodeError, and the
\* text names a term of the anime group, classify_content returns the
\* category donghua/fanju with confidence 0.3; when it names no term of any
\* group, the category is qita.
C25_ScenarioAnimeWhenNamed ==
  (/\ pc = "done"
   /\ posts = <<ScenarioInput>>
   /\ outcome.kind = "text"
   /\ (~HasJsonSpan(outcome.text) \/ DecodeError(outcome.text)))
  => /\ NamesAnime(outcome.text) => result = AnimeResult
     /\ (outcome.text # <<>>
          /\ FirstMatchingGroup(Lower(TextChars(Strip(outcome.text)))) = 0)
        => result = RDict(ResultDict(JList(<<CAT_OTHER>>), JList(<<>>), JNum(30)))

\* The response names the series kind beside a game category, without braces.
C25_Witness ==
  /\ pc = "done"
  /\ posts = <<ScenarioInput>>
  /\ outcome = Outcome("text", <<"fan", "ju", "cat=[youxi]">>)
  /\ result = AnimeResult

\* ================================================= claims: backfill
ResultFields == {"categories", "keywords", "confidence"}

FieldDefault(f) == IF f = "confidence" THEN JNum(50) ELSE JList(<<>>)

\* The response parses as a JSON object that lacks one of the three fields.
LacksField ==
  /\ outcome.kind = "text"
  /\ StructParses(outcome.text)
  /\ ResultFields \ ParsedObj(outcome.text).has # {}

\* C27 as claimed: when the parsed object lacks a field, the missing fields
\* are [], [] and 0.5 and every field that is present is as parsed.
C27_PresentFieldsAsParsed ==
  (pc = "done" /\ LacksField)
  => /\ result.kind = "dict"
     /\ \A f \in ResultFields :
          result.d[f] = IF f \in ParsedObj(outcome.text).has
                        THEN ParsedObj(outcome.text).d[f]
                        ELSE FieldDefault(f)

\* C27 as amended: when the parsed object lacks a field, the missing fields
\* are [], [] and 0.5, keywords and confidence are as parsed when present,
\* and so is categories unless it is a list of two or more entries, of which
\* the first alone is kept.
C27_BackfillThenExclusive ==
  (pc = "done" /\ LacksField)
  => LET obj == ParsedObj(outcome.text)
         several == /\ "categories" \in obj.has
                    /\ obj.d.categories.t = "list"
                    /\ Len(obj.d.categories.items) >= 2
     IN /\ result.kind = "dict"
        /\ \A f \in ResultFields \ {"categories"} :
             result.d[f] = IF f \in obj.has THEN obj.d[f] ELSE FieldDefault(f)
        /\ result.d.categories =
             IF several THEN JList(<<obj.d.categories.items[1]>>)
             ELSE IF "categories" \in obj.has THEN obj.d.categories
             ELSE JList(<<>>)

\* An object with keywords only: categories and confidence are filled in.
C27_Witness ==
  /\ pc = "done"
  /\ outcome = Outcome("text", <<"{", "kw=[k]", "}">>)
  /\ result = RDict(ResultDict(JList(<<>>), JList(<<"k">>), JNum(50)))

\* ================================================= claims: phases
\* The phase of a crawl run at a position of main: START, PAGING,
\* FETCHING_CONTENT, CLASSIFYING, AGGREGATING, DONE; a run that exits early
\* enters no further phase.
PhaseRank(at) ==
  CASE at = "init" -> 0
    [] at \in {"paging", "fetched"} -> 1
    [] at \in {"classify", "contents"} -> 2
    [] at \in {"batch", "done", "raised"} -> 3
    [] at = "classified" -> 4
    [] at = "saved" -> 5
    [] OTHER -> 6

\* The network calls made so far: the startup check, the listing requests,
\* the thread requests, the classification calls.
NetworkCalls ==
  (IF health = "none" THEN 0 ELSE 1) + Len(requested) + Len(fetched) + idx

\* C28: a run never goes back to an earlier phase; a listing request is made
\* only before every thread request, a thread request only before every
\* classification call, a classification call only after the last thread
\* request, the statistics only after the last classification call; a step
\* makes at most one network call.
C28_PhasesInOrder ==
  [][/\ PhaseRank(pc') >= PhaseRank(pc)
     /\ requested' # requested =>
          fetched = <<>> /\ idx = 0 /\ stats = NoStats
     /\ fetched' # fetched =>
          idx = 0 /\ stats = NoStats
     /\ idx' # idx =>
          /\ Len(fetched) = Len(forum_posts)
          /\ stats = NoStats
     /\ stats' # stats =>
          /\ idx = Len(posts)
          /\ Len(fetched) \in {0, Len(forum_posts)}
     /\ NetworkCalls' <= NetworkCalls + 1]_vars

\* A run that made two listing requests, a thread request and a
\* classification call and then saved its statistics.
C28_Witness ==
  /\ pc = "saved"
  /\ Len(requested) >= 2
  /\ Len(fetched) >= 1
  /\ idx = Len(fetched)
  /\ stats # NoStats

\* ================================================= _parse_post_content
\* The texts of a thread page are sequences of runs.  A character is a
\* blank ("sp", any whitespace), a letter, a bracket, or one of the phrases
\* the cleaner and the block scan look for, kept as one character with the
\* length of the phrase:
\*   bentie  (5) ... bianji (2)              the edit notice
\*   daoju   (4) ... jubao  (2)              the tool bar
\*   huifu   (2) ... zhichi (2) ... fandui (2)   the reply bar
\*   yinyong (2)                             the quote button
PhraseLen ==
  ("bentie" :> 5) @@ ("bianji" :> 2) @@ ("daoju" :> 4) @@ ("jubao" :> 2)
  @@ ("huifu" :> 2) @@ ("zhichi" :> 2) @@ ("fandui" :> 2) @@ ("yinyong" :> 2)

CharLen(c) == IF c \in DOMAIN PhraseLen THEN PhraseLen[c] ELSE 1

\* len(text) of a text with phrases
RECURSIVE PageTextLen(_)
PageTextLen(text) ==
  IF text = <<>> THEN 0
  ELSE Head(text).n * CharLen(Head(text).c) + PageTextLen(Tail(text))

\* text.strip()
RECURSIVE StripText(_)
StripText(text) ==
  IF text # <<>> /\ Head(text).c = "sp" THEN StripText(Tail(text))
  ELSE IF text # <<>> /\ text[Len(text)].c = "sp"
  THEN StripText(SubSeq(text, 1, Len(text) - 1))
  ELSE text

\* re.sub(r'\s+', ' ', text)
CollapseBlanks(text) ==
  [i \in 1..Len(text) |-> IF text[i].c = "sp" THEN Run("sp", 1) ELSE text[i]]

\* What is left of the run at position j after its first character.
AfterFirst(text, j) ==
  (IF text[j].n > 1 THEN <<Run(text[j].c, text[j].n - 1)>> ELSE <<>>)
    \o SubSeq(text, j + 1, Len(text))

\* re.sub(open + '.*?' + close, '', text): from the left, each span from an
\* `open` to the nearest `close` after it is removed.
RECURSIVE RemoveSpans(_, _, _)
RemoveSpans(text, open, close) ==
  LET starts == {i \in 1..Len(text) :
                   /\ text[i].c = open
                   /\ \E j \in (i + 1)..Len(text) : text[j].c = close}
  IN IF starts = {} THEN text
     ELSE LET i == Least(starts)
              j == Least({j \in (i + 1)..Len(text) : text[j].c = close})
          IN Concat(SubSeq(text, 1, i - 1),
                    RemoveSpans(AfterFirst(text, j), open, close))

\* re.sub(open + '.*?' + mid + '.*?' + close, '', text)
RECURSIVE RemoveSpans3(_, _, _, _)
RemoveSpans3(text, open, mid, close) ==
  LET ends(j) == {k \in (j + 1)..Len(text) : text[k].c = close}
      mids(i) == {j \in (i + 1)..Len(text) : text[j].c = mid /\ ends(j) # {}}
      starts == {i \in 1..Len(text) : text[i].c = open /\ mids(i) # {}}
  IN IF starts = {} THEN text
     ELSE LET k == Least(ends(Least(mids(Least(starts)))))
          IN Concat(SubSeq(text, 1, Least(starts) - 1),
                    RemoveSpans3(AfterFirst(text, k), open, mid, close))

\* NGAClassifier._clean_content_text
clean_content_text(text) ==
  IF text = <<>> THEN <<>>
  ELSE LET collapsed == CollapseBlanks(StripText(text))
           no_ubb == RemoveSpans(collapsed, "[", "]")
           no_edit == RemoveSpans(no_ubb, "bentie", "bianji")
           no_tools == RemoveSpans(no_edit, "daoju", "jubao")
           no_reply == RemoveSpans3(no_tools, "huifu", "zhichi", "fandui")
       IN StripText(no_reply)

\* What soup.select(selector) gives for one locator: no element, or
\* elements of which the first has the text `text`.
NoElement == [matched |-> FALSE, text |-> <<>>]
FirstElement(text) == [matched |-> TRUE, text |-> text]

\* A thread page as _parse_post_content reads it:
\*   selectors  for each of the 4 locators, what soup.select gives
\*   divs       the texts of the page's div elements, in document order
\*   throws     whether the parse raises
ThreadPage(selectors, divs, throws) ==
  [selectors |-> selectors, divs |-> divs, throws |-> throws]

\* '.postcontent', '[id^="postcontainer"]', '.ubbcode', '.quote'
content_selectors == <<"postcontent", "postcontainer", "ubbcode", "quote">>

MIN_DIV_LENGTH == 50

SKIP_WORDS == {"huifu", "yinyong", "jubao"}

\* Mutant: the loop ends at the first locator that matches an element.
RECURSIVE SelectorLoop_first_match(_)
SelectorLoop_first_match(elements) ==
  IF elements = <<>> THEN <<>>
  ELSE IF Head(elements).matched
  THEN clean_content_text(Head(elements).text)
  ELSE SelectorLoop_first_match(Tail(elements))

\* Lines 357-364: the loop over the locators; content_text after the loop.
RECURSIVE SelectorLoop(_)
SelectorLoop(elements) ==
  IF elements = <<>> THEN <<>>
  ELSE IF Head(elements).matched
  THEN LET cleaned == clean_content_text(Head(elements).text)
       IN IF cleaned # <<>> THEN cleaned ELSE SelectorLoop(Tail(elements))
  ELSE SelectorLoop(Tail(elements))

\* Lines 367-373: the scan of the div elements.
RECURSIVE DivScan(_)
DivScan(content_divs) ==
  IF content_divs = <<>> THEN <<>>
  ELSE LET div_text == StripText(Head(content_divs))
       IN IF /\ PageTextLen(div_text) > MIN_DIV_LENGTH
             /\ \A i \in 1..Len(div_text) : div_text[i].c \notin SKIP_WORDS
          THEN clean_content_text(div_text)
          ELSE DivScan(Tail(content_divs))

\* NGAClassifier._parse_post_content
parse_post_content(thread_page) ==
  IF thread_page.throws THEN PyNone
  ELSE LET from_selectors == SelectorLoop(thread_page.selectors)
           text == IF from_selectors # <<>> THEN from_selectors
                   ELSE DivScan(thread_page.divs)
       IN IF text # <<>> THEN PyStr(text) ELSE PyNone

\* ================================================= SpecThread
\* _parse_post_content on thread pages whose locators match nothing or an
\* element with one of ElementTexts, with up to MaxDivs div elements.
UbbOnly == <<Run("[", 1), Run("u", 1), Run("]", 1)>>

PlainText == <<Run("a", 3)>>

ElementTexts ==
  { <<>>,
    <<Run("sp", 2)>>,
    UbbOnly,
    PlainText,
    <<Run("sp", 1), Run("b", 2), Run("sp", 3), Run("[", 2), Run("u", 1),
      Run("]", 2), Run("sp", 1)>>,
    <<Run("bentie", 1), Run("x", 1), Run("bianji", 1), Run("huifu", 1),
      Run("zhichi", 1), Run("fandui", 1), Run("daoju", 1), Run("jubao", 1)>> }

Elements == {NoElement} \cup {FirstElement(t) : t \in ElementTexts}

DivTexts ==
  { <<Run("a", MIN_DIV_LENGTH)>>,
    <<Run("sp", 1), Run("a", MIN_DIV_LENGTH + 1)>>,
    <<Run("c", MIN_DIV_LENGTH), Run("yinyong", 1)>>,
    <<Run("[", 1), Run("u", MIN_DIV_LENGTH), Run("]", 1)>> }

ThreadPagesUpTo(n) ==
  {ThreadPage(<<>>, <<>>, TRUE)}
    \cup {ThreadPage(s, d, FALSE) :
            s \in [1..Len(content_selectors) -> Elements],
            d \in SeqsUpTo(DivTexts, n)}

InitThread ==
  /\ pc = "start"
  /\ response = <<>>
  /\ outcome = IdleOutcome
  /\ result = RNone
  /\ BatchIdle
  /\ html \in ThreadPagesUpTo(MaxDivs)
  /\ page_posts = <<>>
  /\ FetchIdle
  /\ RestIdle

ParsePostContent ==
  /\ pc = "start"
  /\ content_text' = parse_post_content(html)
  /\ pc' = "done"
  /\ UNCHANGED <<response, outcome, result, batchVars, listingVars, fetchVars,
                 last_net, contentVars, runVars, truncated, statsVars, extractVars>>

NextThread == ParsePostContent

SpecThread == InitThread /\ [][NextThread]_vars

\* ================================================= claims: thread page
\* The locators, in order, that match an element of the page.
Matching == {k \in 1..Len(html.selectors) : html.selectors[k].matched}

Cleaned(k) == clean_content_text(html.selectors[k].text)

\* The locators whose first matched element has text left after cleaning.
Yielding == {k \in Matching : Cleaned(k) # <<>>}

\* The div elements the block scan accepts.
Accepted ==
  {i \in 1..Len(html.divs) :
     /\ PageTextLen(StripText(html.divs[i])) > MIN_DIV_LENGTH
     /\ \A j \in 1..Len(html.divs[i]) : html.divs[i][j].c \notin SKIP_WORDS}

TextOrNone(text) == IF text # <<>> THEN PyStr(text) ELSE PyNone

\* C29 as claimed: when a locator matches an element, the first such locator
\* decides: the result is the cleaned text of its first matched element, and
\* no later locator and no div element has a say.
C29_FirstMatchingLocatorDecides ==
  (pc = "done" /\ ~html.throws /\ Matching # {})
  => content_text = TextOrNone(Cleaned(Least(Matching)))

\* C29 as amended: the first locator, in order, whose first matched element
\* has text left after cleaning decides, and the result is that text; when
\* there is none (no locator matches, or every matched first element cleans
\* to nothing), the first accepted div element decides, and the result is
\* its cleaned text, absent when that is empty or no div is accepted.
C29_FirstYieldingLocatorDecides ==
  (pc = "done" /\ ~html.throws)
  => content_text =
       IF Yielding # {} THEN PyStr(Cleaned(Least(Yielding)))
       ELSE IF Accepted # {}
       THEN TextOrNone(clean_content_text(StripText(html.divs[Least(Accepted)])))
       ELSE PyNone

\* The content container holds a UBB tag only, the post wrapper plain text:
\* the post wrapper's text is the result.
C29_Witness ==
  /\ pc = "done"
  /\ ~html.throws
  /\ html.selectors[1] = FirstElement(UbbOnly)
  /\ html.selectors[2] = FirstElement(PlainText)
  /\ content_text = PyStr(PlainText)

============================================================================
